---- MODULE Spec2Model ----
(***************************************************************************)
(* A model of the DevIT backend (src/backend/api.py, src/backend/imgbb.py):*)
(* the posts, comments and users collections; the vote handlers; the post  *)
(* handlers with their image upload; sign-up, login, logout, password      *)
(* change and password reset.  Each store call (find_one, update_one,      *)
(* insert_one, delete_one) is atomic on one document, as in MongoDB; a     *)
(* handler is a sequence of such calls with an await between them.         *)
(***************************************************************************)
EXTENDS Integers, Sequences, FiniteSets, TLC

\* ------------------------------------------------------------------ bounds
\* Authenticated users that vote: Users == 1..NumUsers.
NumUsers == 2
\* Sequential votes that may precede the two concurrent requests of SpecConc.
MaxPre == 1
\* The clock of the auth specifications runs from 0 to MaxTime hours, one hour a
\* tick.
MaxTime == 2
\* The salts bcrypt may draw for one hash: 1..NumSalts.
NumSalts == 1

Users == 1..NumUsers
PostIds == {"p1"}
CommentIds == {"c1"}
ValidVoteTypes == {"upvote", "downvote", "remove_upvote", "remove_downvote"}
InvalidVoteTypes == {"bogus"}
VoteTypes == ValidVoteTypes \cup InvalidVoteTypes

VARIABLES
  posts,     \* the posts collection: post id -> document
  comments,  \* the comments collection: comment id -> document
  last,      \* the request that ran to completion last, and its response
  scenario,  \* progress of the post along the scenario of three votes
  reqs,      \* the requests in flight: their position and local variables
  pre,       \* votes run to completion before the concurrent requests
  users,     \* the users collection, in insertion order; _id is the position
  now,       \* datetime.utcnow(), in minutes
  resp,      \* the response of the last auth request, as the client receives it
  call,      \* the last auth request: its handler, arguments and the branch taken
  session    \* per user _id: the last session call that succeeded and the refresh
             \* tokens the client was handed (history)

storeVars == <<posts, comments>>
seqVars == <<last, scenario>>
concVars == <<reqs, pre>>
authVars == <<users, now, resp, call, session>>
vars ==
  <<posts, comments, last, scenario, reqs, pre, users, now, resp, call, session>>

ReqIds == {"r1", "r2"}

\* ------------------------------------------------------- documents, helpers
\* The "voters" field of a document: absent, or the two arrays.
NoVoters == [present |-> FALSE, upvoters |-> <<>>, downvoters |-> <<>>]
EmptyVoters == [present |-> TRUE, upvoters |-> <<>>, downvoters |-> <<>>]

\* Python's None, for a field and for an argument left out.
None == "None"
\* No document under this id: user_id is the owner of a post, post_id the post of
\* a comment; deleted marks an _id whose document was deleted (an ObjectId is
\* never handed out twice).
NoDoc ==
  [exists |-> FALSE, upvotes |-> 0, downvotes |-> 0, voters |-> NoVoters,
   user_id |-> 0, title |-> None, content |-> None, imageUrl |-> None,
   post_id |-> None, deleted |-> FALSE]
\* The document create_post / create_comment insert: counters 0, no voters field.
NewDoc == [NoDoc EXCEPT !.exists = TRUE]
\* What delete_one / delete_many leave under the _id.
DeletedDoc == [NoDoc EXCEPT !.deleted = TRUE]

\* A membership test that never finds the user (the ids compared in two types).
In_never(x, list) == FALSE
\* Python's  x in list.
In(x, list) == \E i \in 1..Len(list) : list[i] = x

\* post.get("voters", {"upvoters": [], "downvoters": []}) and the two .get calls.
GetUpvoters(doc) == IF doc.voters.present THEN doc.voters.upvoters ELSE <<>>
GetDownvoters(doc) == IF doc.voters.present THEN doc.voters.downvoters ELSE <<>>

\* What post_helper / comment_helper put in a response: the counters and the voters.
post_helper(post) ==
  [upvotes |-> post.upvotes, downvotes |-> post.downvotes,
   upvoters |-> GetUpvoters(post), downvoters |-> GetDownvoters(post)]
comment_helper(comment) ==
  [upvotes |-> comment.upvotes, downvotes |-> comment.downvotes,
   upvoters |-> GetUpvoters(comment), downvoters |-> GetDownvoters(comment)]

\* --------------------------------------------------------- store operations
\* update_one(..., {"$set": {"voters": {"upvoters": [], "downvoters": []}}}).
SetVotersEmpty(doc) ==
  IF doc.exists THEN [doc EXCEPT !.voters = EmptyVoters] ELSE doc

\* A $pull that removes nothing (the wrong array path).
Pull_nothing(list, x) == list
\* MongoDB $pull: every occurrence of x leaves the array.
Pull(list, x) == SelectSeq(list, LAMBDA e : e # x)
\* MongoDB $push: x is appended, whether or not it is already there.
Push(list, x) == Append(list, x)

NoOp == [pull |-> {}, push |-> {}, inc_up |-> 0, inc_down |-> 0]

\* An update that applies the array changes and upvotes, and drops the $inc of
\* downvotes.
ApplyUpdate_no_inc_down(doc, op, user_id) ==
  IF ~doc.exists THEN doc
  ELSE LET up0 == GetUpvoters(doc)
           down0 == GetDownvoters(doc)
           up1 == IF "upvoters" \in op.pull THEN Pull(up0, user_id) ELSE up0
           down1 == IF "downvoters" \in op.pull THEN Pull(down0, user_id) ELSE down0
           up2 == IF "upvoters" \in op.push THEN Push(up1, user_id) ELSE up1
           down2 == IF "downvoters" \in op.push THEN Push(down1, user_id) ELSE down1
       IN [doc EXCEPT !.upvotes = doc.upvotes + op.inc_up,
                      !.voters = [present |-> TRUE, upvoters |-> up2,
                                  downvoters |-> down2]]

\* update_one(filter by _id, update_operation): one atomic update of the document
\* as it is stored now; a filter that matches no document updates nothing.
ApplyUpdate(doc, op, user_id) ==
  IF ~doc.exists THEN doc
  ELSE LET up0 == GetUpvoters(doc)
           down0 == GetDownvoters(doc)
           up1 == IF "upvoters" \in op.pull THEN Pull(up0, user_id) ELSE up0
           down1 == IF "downvoters" \in op.pull THEN Pull(down0, user_id) ELSE down0
           up2 == IF "upvoters" \in op.push THEN Push(up1, user_id) ELSE up1
           down2 == IF "downvoters" \in op.push THEN Push(down1, user_id) ELSE down1
       IN [doc EXCEPT !.upvotes = doc.upvotes + op.inc_up,
                      !.downvotes = doc.downvotes + op.inc_down,
                      !.voters = [present |-> TRUE, upvoters |-> up2,
                                  downvoters |-> down2]]

\* ------------------------------------------------------ the vote transition
Return(message) == [kind |-> "return", message |-> message, op |-> NoOp]
Update(op) == [kind |-> "update", message |-> "", op |-> op]
\* An unknown vote_type answered as a no-op instead of an error.
Raise400_silent == Return("Invalid vote type")
Raise400 == [kind |-> "raise", message |-> "Invalid vote type", op |-> NoOp]

\* vote_post, from the read of voters to the choice of update_operation.
vote_post_decide(post, user_id, vote_type) ==
  LET upvoters == GetUpvoters(post)
      downvoters == GetDownvoters(post)
  IN CASE vote_type = "upvote" ->
            IF In(user_id, upvoters) THEN Return("Already upvoted")
            ELSE IF In(user_id, downvoters)
                 THEN Update([pull |-> {"downvoters"}, push |-> {"upvoters"},
                              inc_up |-> 1, inc_down |-> -1])
                 ELSE Update([pull |-> {}, push |-> {"upvoters"},
                              inc_up |-> 1, inc_down |-> 0])
       [] vote_type = "downvote" ->
            IF In(user_id, downvoters) THEN Return("Already downvoted")
            ELSE IF In(user_id, upvoters)
                 THEN Update([pull |-> {"upvoters"}, push |-> {"downvoters"},
                              inc_up |-> -1, inc_down |-> 1])
                 ELSE Update([pull |-> {}, push |-> {"downvoters"},
                              inc_up |-> 0, inc_down |-> 1])
       [] vote_type = "remove_upvote" ->
            IF ~In(user_id, upvoters) THEN Return("Not upvoted")
            ELSE Update([pull |-> {"upvoters"}, push |-> {},
                         inc_up |-> -1, inc_down |-> 0])
       [] vote_type = "remove_downvote" ->
            IF ~In(user_id, downvoters) THEN Return("Not downvoted")
            ELSE Update([pull |-> {"downvoters"}, push |-> {},
                         inc_up |-> 0, inc_down |-> -1])
       [] OTHER -> Raise400

\* A vote_comment whose switch from downvote to upvote pushes and pulls nothing.
vote_comment_decide_push_only(comment, user_id, vote_type) ==
  LET upvoters == GetUpvoters(comment)
      downvoters == GetDownvoters(comment)
  IN CASE vote_type = "upvote" ->
            IF In(user_id, upvoters) THEN Return("Already upvoted")
            ELSE Update([pull |-> {}, push |-> {"upvoters"},
                         inc_up |-> 1, inc_down |-> 0])
       [] vote_type = "downvote" ->
            IF In(user_id, downvoters) THEN Return("Already downvoted")
            ELSE IF In(user_id, upvoters)
                 THEN Update([pull |-> {"upvoters"}, push |-> {"downvoters"},
                              inc_up |-> -1, inc_down |-> 1])
                 ELSE Update([pull |-> {}, push |-> {"downvoters"},
                              inc_up |-> 0, inc_down |-> 1])
       [] vote_type = "remove_upvote" ->
            IF ~In(user_id, upvoters) THEN Return("Not upvoted")
            ELSE Update([pull |-> {"upvoters"}, push |-> {},
                         inc_up |-> -1, inc_down |-> 0])
       [] vote_type = "remove_downvote" ->
            IF ~In(user_id, downvoters) THEN Return("Not downvoted")
            ELSE Update([pull |-> {"downvoters"}, push |-> {},
                         inc_up |-> 0, inc_down |-> -1])
       [] OTHER -> Raise400

\* vote_comment, from the read of voters to the choice of update_operation.
vote_comment_decide(comment, user_id, vote_type) ==
  LET upvoters == GetUpvoters(comment)
      downvoters == GetDownvoters(comment)
  IN CASE vote_type = "upvote" ->
            IF In(user_id, upvoters) THEN Return("Already upvoted")
            ELSE IF In(user_id, downvoters)
                 THEN Update([pull |-> {"downvoters"}, push |-> {"upvoters"},
                              inc_up |-> 1, inc_down |-> -1])
                 ELSE Update([pull |-> {}, push |-> {"upvoters"},
                              inc_up |-> 1, inc_down |-> 0])
       [] vote_type = "downvote" ->
            IF In(user_id, downvoters) THEN Return("Already downvoted")
            ELSE IF In(user_id, upvoters)
                 THEN Update([pull |-> {"upvoters"}, push |-> {"downvoters"},
                              inc_up |-> -1, inc_down |-> 1])
                 ELSE Update([pull |-> {}, push |-> {"downvoters"},
                              inc_up |-> 0, inc_down |-> 1])
       [] vote_type = "remove_upvote" ->
            IF ~In(user_id, upvoters) THEN Return("Not upvoted")
            ELSE Update([pull |-> {"upvoters"}, push |-> {},
                         inc_up |-> -1, inc_down |-> 0])
       [] vote_type = "remove_downvote" ->
            IF ~In(user_id, downvoters) THEN Return("Not downvoted")
            ELSE Update([pull |-> {"downvoters"}, push |-> {},
                         inc_up |-> 0, inc_down |-> -1])
       [] OTHER -> Raise400

\* ------------------------------------------ a whole handler, run on its own
\* The outcome of one vote request that runs to completion with no other request
\* in between: the document it leaves, its response, and the update_one calls made.
Outcome(doc, status, detail, action, message, writes, body) ==
  [doc |-> doc, status |-> status, detail |-> detail, action |-> action,
   message |-> message, writes |-> writes, body |-> body]

NoBody == [upvotes |-> 0, downvotes |-> 0, upvoters |-> <<>>, downvoters |-> <<>>]

VotePostRun(post0, user_id, vote_type) ==
  IF ~post0.exists
  THEN Outcome(post0, 404, "Post not found", "absent", "", 0, NoBody)
  ELSE LET init == ~post0.voters.present
           post == IF init THEN SetVotersEmpty(post0) ELSE post0
           w == IF init THEN 1 ELSE 0
           d == vote_post_decide(post, user_id, vote_type)
       IN CASE d.kind = "return" ->
                 Outcome(post, 200, "", "none", d.message, w, post_helper(post))
            [] d.kind = "raise" ->
                 Outcome(post, 400, d.message, "absent", "", w, NoBody)
            [] OTHER ->
                 LET updated_post == ApplyUpdate(post, d.op, user_id)
                 IN Outcome(updated_post, 200, "", "absent", "", w + 1,
                            post_helper(updated_post))

VoteCommentRun(comment0, user_id, vote_type) ==
  IF ~comment0.exists
  THEN Outcome(comment0, 404, "Comment not found", "absent", "", 0, NoBody)
  ELSE LET init == ~comment0.voters.present
           comment == IF init THEN SetVotersEmpty(comment0) ELSE comment0
           w == IF init THEN 1 ELSE 0
           d == vote_comment_decide(comment, user_id, vote_type)
       IN CASE d.kind = "return" ->
                 Outcome(comment, 200, "", "none", d.message, w,
                         comment_helper(comment))
            [] d.kind = "raise" ->
                 Outcome(comment, 400, d.message, "absent", "", w, NoBody)
            [] OTHER ->
                 LET updated_comment == ApplyUpdate(comment, d.op, user_id)
                 IN Outcome(updated_comment, 200, "", "absent", "", w + 1,
                            comment_helper(updated_comment))

\* ------------------------------------------------- the record of a request
\* last: the request that finished last, with its response.  Two fields look one
\* request further back: repeat says that the request before it had the same
\* handler, id, user and vote_type (and found the document); upvote_before is the
\* document as it was before the request before it, when that request was an
\* upvote by the same user on the same document and this one is remove_upvote.
SameTarget(op, id, user_id) ==
  last.op = op /\ last.id = id /\ last.user = user_id /\ last.status # 404

Call(op, id, user_id, vote_type, before, out) ==
  [op |-> op, id |-> id, user |-> user_id, vote_type |-> vote_type,
   before |-> before, status |-> out.status, detail |-> out.detail,
   action |-> out.action, message |-> out.message, writes |-> out.writes,
   body |-> out.body,
   repeat |-> SameTarget(op, id, user_id) /\ last.vote_type = vote_type,
   after_upvote |-> /\ SameTarget(op, id, user_id)
                    /\ last.vote_type = "upvote"
                    /\ vote_type = "remove_upvote",
   upvote_before |-> IF /\ SameTarget(op, id, user_id)
                        /\ last.vote_type = "upvote"
                        /\ vote_type = "remove_upvote"
                     THEN last.before ELSE NoDoc]

NoCall ==
  [op |-> "none", id |-> "", user |-> 0, vote_type |-> "", before |-> NoDoc,
   status |-> 0, detail |-> "", action |-> "absent", message |-> "",
   writes |-> 0, body |-> NoBody, repeat |-> FALSE, after_upvote |-> FALSE,
   upvote_before |-> NoDoc]

\* How far the votes on the post have followed the scenario "user 1 upvotes, user 1
\* downvotes, user 2 upvotes" since the post was created: 0 for the fresh post,
\* 1..3 after that many of its steps, -1 once any other vote has reached the post.
ScenarioStep(user_id, vote_type) ==
  CASE scenario = 0 /\ user_id = 1 /\ vote_type = "upvote" -> 1
    [] scenario = 1 /\ user_id = 1 /\ vote_type = "downvote" -> 2
    [] scenario = 2 /\ user_id = 2 /\ vote_type = "upvote" -> 3
    [] OTHER -> -1

\* ------------------------------------------------------------------ actions
\* post_dict of create_post and create_post_with_image.
post_dict(current_user, title, content, imageUrl) ==
  [NewDoc EXCEPT !.user_id = current_user, !.title = title, !.content = content,
                 !.imageUrl = imageUrl]

\* create_post by current_user: insert_one of a document with upvotes 0,
\* downvotes 0, no voters, under a new _id.
create_post(post_id, current_user, post) ==
  LET new_post == post_dict(current_user, post.title, post.content, post.imageUrl)
  IN /\ ~posts[post_id].exists /\ ~posts[post_id].deleted
     /\ posts' = [posts EXCEPT ![post_id] = new_post]
     /\ last' = Call("create_post", post_id, current_user, "", posts[post_id],
                     Outcome(new_post, 200, "", "absent", "", 1,
                             post_helper(new_post)))
     /\ scenario' = 0
     /\ UNCHANGED <<comments, concVars, authVars>>

\* create_comment: 404 unless the post exists, then insert_one.
create_comment(comment_id, post_id) ==
  LET comment_dict == [NewDoc EXCEPT !.post_id = post_id]
  IN
  /\ ~comments[comment_id].exists /\ ~comments[comment_id].deleted
  /\ posts[post_id].exists
  /\ comments' = [comments EXCEPT ![comment_id] = comment_dict]
  /\ last' = Call("create_comment", comment_id, 0, "", comments[comment_id],
                  Outcome(comment_dict, 200, "", "absent", "", 1,
                          comment_helper(comment_dict)))
  /\ UNCHANGED <<posts, scenario, concVars, authVars>>

\* A vote_post whose update has no filter on _id and reaches every post.
vote_post_every_post(post_id, user_id, vote_type) ==
  LET out == VotePostRun(posts[post_id], user_id, vote_type)
  IN /\ posts' = [q \in DOMAIN posts |-> VotePostRun(posts[q], user_id, vote_type).doc]
     /\ last' = Call("vote_post", post_id, user_id, vote_type, posts[post_id], out)
     /\ scenario' = ScenarioStep(user_id, vote_type)
     /\ UNCHANGED comments

\* vote_post run from its first line to its return with no other request in between.
vote_post(post_id, user_id, vote_type) ==
  LET out == VotePostRun(posts[post_id], user_id, vote_type)
  IN /\ posts' = [posts EXCEPT ![post_id] = out.doc]
     /\ last' = Call("vote_post", post_id, user_id, vote_type, posts[post_id], out)
     /\ scenario' = ScenarioStep(user_id, vote_type)
     /\ UNCHANGED comments

\* vote_comment run from its first line to its return with no other request in between.
vote_comment(comment_id, user_id, vote_type) ==
  LET out == VoteCommentRun(comments[comment_id], user_id, vote_type)
  IN /\ comments' = [comments EXCEPT ![comment_id] = out.doc]
     /\ last' = Call("vote_comment", comment_id, user_id, vote_type,
                     comments[comment_id], out)
     /\ UNCHANGED <<posts, scenario>>

\* ---------------------------------------------- posts: image, update, delete
\* imgbb.py: the keys, tried in this order.
IMGBB_API_KEYS == <<"cde20f", "b5921d", "c87849", "66159f", "e6faa5">>
\* What the POST with one key comes to: "ok" (status 200 and success, with the url
\* of the image), "error" (any other response), "raise" (an exception: timeout,
\* no connection, a body that is not JSON).
AttemptOutcomes == {"ok", "error", "raise"}
\* data["data"]["url"] of the response to the attempt with each key.
ImgbbUrls == <<"imgbb1", "imgbb2", "imgbb3", "imgbb4", "imgbb5">>
\* No upload made.
NoUpload == [raised |-> FALSE, url |-> None, key |-> 0, tried |-> <<>>]
RECURSIVE TryKeys(_, _)
\* An upload that gives up when the first key has not worked.
TryKeys_first_key_only(attempts, k) ==
  IF attempts[1] = "ok"
  THEN [raised |-> FALSE, url |-> ImgbbUrls[1], key |-> 1,
        tried |-> <<IMGBB_API_KEYS[1]>>]
  ELSE [raised |-> TRUE, url |-> None, key |-> 0, tried |-> <<IMGBB_API_KEYS[1]>>]
\* upload_image_to_imgbb from key number k on: the url of the first attempt that is
\* ok, raised when no key is left; tried is the keys posted with, in order.
TryKeys(attempts, k) ==
  IF k > Len(IMGBB_API_KEYS)
  THEN [raised |-> TRUE, url |-> None, key |-> 0, tried |-> <<>>]
  ELSE IF attempts[k] = "ok"
  THEN [raised |-> FALSE, url |-> ImgbbUrls[k], key |-> k,
        tried |-> <<IMGBB_API_KEYS[k]>>]
  ELSE LET later == TryKeys(attempts, k + 1)
       IN [later EXCEPT !.tried = <<IMGBB_API_KEYS[k]>> \o @]
upload_image_to_imgbb(attempts) == TryKeys(attempts, 1)

\* The result of a post handler run on its own: the two collections it leaves,
\* its response (detail is the detail of the error, or the message returned) and
\* the writes it made.
PostOut(ps, cs, status, detail, writes) ==
  [posts |-> ps, comments |-> cs, status |-> status, detail |-> detail,
   writes |-> writes]

\* update_one({"_id": id}, {"$set": update_dict}); update_dict holds title and
\* content when they are not None, and imageUrl when set_image.
SetPost(ps, post_id, title, content, set_image, imageUrl) ==
  [ps EXCEPT ![post_id] =
     [@ EXCEPT !.title = IF title = None THEN @ ELSE title,
               !.content = IF content = None THEN @ ELSE content,
               !.imageUrl = IF set_image THEN imageUrl ELSE @]]

\* A create_post_with_image that drops the image when the upload fails.
CreatePostWithImageRun_drops_image(ps, cs, post_id, current_user, post_data, attempts) ==
  LET up == IF post_data.image = None THEN [raised |-> FALSE, url |-> None]
            ELSE upload_image_to_imgbb(attempts)
  IN PostOut([ps EXCEPT ![post_id] =
                post_dict(current_user, post_data.title, post_data.content,
                          up.url)],
             cs, 200, "", 1)

\* create_post_with_image by current_user, post_id the new _id.
CreatePostWithImageRun(ps, cs, post_id, current_user, post_data, attempts) ==
  LET up == IF post_data.image = None THEN [raised |-> FALSE, url |-> None]
            ELSE upload_image_to_imgbb(attempts)
  IN IF up.raised THEN PostOut(ps, cs, 500, "Image upload failed", 0)
     ELSE PostOut([ps EXCEPT ![post_id] =
                     post_dict(current_user, post_data.title, post_data.content,
                               up.url)],
                  cs, 200, "", 1)

\* update_post by current_user.
UpdatePostRun(ps, cs, post_id, current_user, update_data) ==
  IF ~ps[post_id].exists THEN PostOut(ps, cs, 404, "Post not found", 0)
  ELSE IF ps[post_id].user_id # current_user
  THEN PostOut(ps, cs, 403, "You can only edit your own posts", 0)
  ELSE PostOut(SetPost(ps, post_id, update_data.title, update_data.content,
                       update_data.imageUrl # None, update_data.imageUrl),
               cs, 200, "",
               IF update_data = [title |-> None, content |-> None,
                                 imageUrl |-> None] THEN 0 ELSE 1)

\* update_post_with_image by current_user.
UpdatePostWithImageRun(ps, cs, post_id, current_user, update_data, attempts) ==
  IF ~ps[post_id].exists THEN PostOut(ps, cs, 404, "Post not found", 0)
  ELSE IF ps[post_id].user_id # current_user
  THEN PostOut(ps, cs, 403, "You can only edit your own posts", 0)
  ELSE IF update_data.image # None
  THEN LET up == upload_image_to_imgbb(attempts)
       IN IF up.raised THEN PostOut(ps, cs, 500, "Image upload failed", 0)
          ELSE PostOut(SetPost(ps, post_id, update_data.title,
                               update_data.content, TRUE, up.url),
                       cs, 200, "", 1)
  ELSE PostOut(SetPost(ps, post_id, update_data.title, update_data.content,
                       update_data.remove_image, None),
               cs, 200, "",
               IF update_data.title = None /\ update_data.content = None
                  /\ ~update_data.remove_image THEN 0 ELSE 1)

\* A delete_post that does not compare the owner.
DeletePostRun_any_user(ps, cs, post_id, current_user) ==
  IF ~ps[post_id].exists THEN PostOut(ps, cs, 404, "Post not found", 0)
  ELSE PostOut([ps EXCEPT ![post_id] = DeletedDoc],
               [c \in DOMAIN cs |->
                  IF cs[c].exists /\ cs[c].post_id = post_id THEN DeletedDoc
                  ELSE cs[c]],
               200, "Post and comments deleted successfully", 2)

\* delete_post by current_user: delete_one of the post, then delete_many of the
\* comments whose post_id it is.
DeletePostRun(ps, cs, post_id, current_user) ==
  IF ~ps[post_id].exists THEN PostOut(ps, cs, 404, "Post not found", 0)
  ELSE IF ps[post_id].user_id # current_user
  THEN PostOut(ps, cs, 403, "You can only delete your own posts", 0)
  ELSE PostOut([ps EXCEPT ![post_id] = DeletedDoc],
               [c \in DOMAIN cs |->
                  IF cs[c].exists /\ cs[c].post_id = post_id THEN DeletedDoc
                  ELSE cs[c]],
               200, "Post and comments deleted successfully", 2)

\* A post handler run to completion: the collections and the request in last.
PostStep(op, post_id, current_user, out) ==
  /\ posts' = out.posts
  /\ comments' = out.comments
  /\ last' = Call(op, post_id, current_user, "", posts[post_id],
                  Outcome(out.posts[post_id], out.status,
                          IF out.status = 200 THEN "" ELSE out.detail, "absent",
                          IF out.status = 200 THEN out.detail ELSE "",
                          out.writes, post_helper(out.posts[post_id])))
  /\ UNCHANGED <<concVars, authVars>>

create_post_with_image(post_id, current_user, post_data, attempts) ==
  /\ ~posts[post_id].exists /\ ~posts[post_id].deleted
  /\ PostStep("create_post_with_image", post_id, current_user,
              CreatePostWithImageRun(posts, comments, post_id, current_user,
                                     post_data, attempts))
  /\ scenario' = IF posts'[post_id].exists THEN 0 ELSE scenario

update_post(post_id, current_user, update_data) ==
  /\ PostStep("update_post", post_id, current_user,
              UpdatePostRun(posts, comments, post_id, current_user, update_data))
  /\ UNCHANGED scenario

update_post_with_image(post_id, current_user, update_data, attempts) ==
  /\ PostStep("update_post_with_image", post_id, current_user,
              UpdatePostWithImageRun(posts, comments, post_id, current_user,
                                     update_data, attempts))
  /\ UNCHANGED scenario

delete_post(post_id, current_user) ==
  /\ PostStep("delete_post", post_id, current_user,
              DeletePostRun(posts, comments, post_id, current_user))
  /\ scenario' = IF posts'[post_id].exists THEN scenario ELSE -1

InitStore ==
  /\ posts = [p \in PostIds |-> NoDoc]
  /\ comments = [c \in CommentIds |-> NoDoc]
  /\ last = NoCall
  /\ scenario = -1

\* ------------------------------------------------------------------- auth
\* Strings whose characters the code looks at are sequences of pieces, so that
\* "@" in s  is a test on the pieces.
Usernames == {<<"alice">>, <<"bob">>}
Emails == {<<"alice", "@", "x.com">>, <<"bob", "@", "x.com">>}
Identifiers == Usernames \cup Emails
Passwords == {"pw1", "pw2"}
Salts == 1..NumSalts

ACCESS_TOKEN_EXPIRE_MINUTES == 60 * 24 * 7
\* timedelta(days=30), in minutes.
refresh_token_expires == 30 * 24 * 60

\* "@" in form_data.username
HasAt(s) == \E i \in 1..Len(s) : s[i] = "@"

\* A bcrypt digest: the salt drawn and the secret hashed; only verify reads it.
NoHash(none) == [present |-> FALSE, salt |-> 0, plain |-> none]
get_password_hash(password, salt) ==
  [present |-> TRUE, salt |-> salt, plain |-> password]
verify_password(plain_password, hashed_password) ==
  hashed_password.present /\ hashed_password.plain = plain_password

\* A JWT: the claims jwt.encode signs and the key it signs them with.
SECRET_KEY == "SECRET_KEY"
NoToken == [sub |-> 0, refresh |-> FALSE, exp |-> 0, key |-> ""]
create_access_token(sub, refresh, expires_delta) ==
  [sub |-> sub, refresh |-> refresh, exp |-> now + expires_delta,
   key |-> SECRET_KEY]

\* timedelta(hours=1), in minutes.
Hour == 60
\* random.randint(100000, 999999): its two ends.
RESET_CODE_MIN == 100000
RESET_CODE_MAX == 999999
RandInts == {RESET_CODE_MIN, RESET_CODE_MAX}
\* str(n): the decimal digits of n.
RECURSIVE Str(_)
Str(n) == IF n < 10 THEN <<n>> ELSE Append(Str(n \div 10), n % 10)
\* The reset codes a client may submit.
ResetCodes == {Str(n) : n \in RandInts}

\* A field a user document may lack.
NoCode == [present |-> FALSE, value |-> <<>>]
NoExpiry == [present |-> FALSE, value |-> 0]

\* find_one: of the documents that match (their positions), the first in insertion
\* order; 0 for None.
find_one(hits) ==
  IF hits = {} THEN 0 ELSE CHOOSE i \in hits : \A j \in hits : i <= j

FindByEmail(coll, email) == find_one({i \in 1..Len(coll) : coll[i].email = email})
FindByUsername(coll, username) ==
  find_one({i \in 1..Len(coll) : coll[i].username = username})
get_user_by_email(email) == FindByEmail(users, email)

\* authenticate_user: the user's _id, or 0 for False.
authenticate_user(email, password) ==
  LET user == get_user_by_email(email)
  IN IF user = 0 THEN 0
     ELSE IF ~verify_password(password, users[user].password) THEN 0
     ELSE user

\* The responses.
NoHeaders == "absent"
NoDevOnly == [present |-> FALSE, reset_code |-> <<>>, email |-> <<>>]
HttpError(status, detail, headers) ==
  [status |-> status, detail |-> detail, headers |-> headers,
   access_token |-> NoToken, refresh_token |-> NoToken, user_id |-> 0,
   username |-> <<>>, email |-> <<>>, message |-> "", dev_only |-> NoDevOnly]
TokenResponse(access_token, refresh_token, user_id, username) ==
  [HttpError(200, "", NoHeaders) EXCEPT
     !.access_token = access_token, !.refresh_token = refresh_token,
     !.user_id = user_id, !.username = username]
\* user_helper(user): id, username and email of the document.
user_helper(coll, id) ==
  [HttpError(200, "", NoHeaders) EXCEPT
     !.user_id = id, !.username = coll[id].username, !.email = coll[id].email]
\* {"message": message}
Message(message) == [HttpError(200, "", NoHeaders) EXCEPT !.message = message]
NoResp == HttpError(0, "", NoHeaders)
NoAuthCall ==
  [op |-> "none", identifier |-> <<>>, password |-> "", branch |-> "",
   user |-> 0, code |-> <<>>, new_password |-> ""]
AuthCall(op, identifier, password, branch) ==
  [NoAuthCall EXCEPT !.op = op, !.identifier = identifier,
                     !.password = password, !.branch = branch]

\* users_collection.update_one({"_id": id}, {"$set": {"refresh_token": hash}}).
SetRefreshToken(coll, id, hash) ==
  [i \in 1..Len(coll) |-> IF i = id THEN [coll[i] EXCEPT !.refresh_token = hash]
                          ELSE coll[i]]

\* The two tokens of a login or registration, and the stored hash of the second.
IssueTokens(coll, id, salt) ==
  LET access_token == create_access_token(id, FALSE, ACCESS_TOKEN_EXPIRE_MINUTES)
      refresh_token == create_access_token(id, TRUE, refresh_token_expires)
  IN [users |-> SetRefreshToken(coll, id, get_password_hash(refresh_token, salt)),
      resp |-> TokenResponse(access_token, refresh_token, id, coll[id].username)]

\* A login that tells a missing account from a wrong password.
LoginRun_tells(identifier, password, salt) ==
  LET user == IF HasAt(identifier) THEN get_user_by_email(identifier)
              ELSE FindByUsername(users, identifier)
  IN IF user = 0
     THEN [users |-> users, branch |-> "not_found",
           resp |-> HttpError(404, "User not found", NoHeaders)]
     ELSE IF ~verify_password(password, users[user].password)
     THEN [users |-> users, branch |-> "bad_password",
           resp |-> HttpError(401, "Incorrect username or password",
                              "WWW-Authenticate: Bearer")]
     ELSE LET t == IssueTokens(users, user, salt)
          IN [users |-> t.users, branch |-> "ok", resp |-> t.resp]

\* login, from the lookup to the response; salt is the one bcrypt draws.
LoginRun(identifier, password, salt) ==
  LET user == IF HasAt(identifier) THEN get_user_by_email(identifier)
              ELSE FindByUsername(users, identifier)
  IN IF user = 0
     THEN [users |-> users, branch |-> "not_found",
           resp |-> HttpError(401, "Incorrect username or password",
                              "WWW-Authenticate: Bearer")]
     ELSE IF ~verify_password(password, users[user].password)
     THEN [users |-> users, branch |-> "bad_password",
           resp |-> HttpError(401, "Incorrect username or password",
                              "WWW-Authenticate: Bearer")]
     ELSE LET t == IssueTokens(users, user, salt)
          IN [users |-> t.users, branch |-> "ok", resp |-> t.resp]

\* login_with_email, from authenticate_user to the response.
LoginWithEmailRun(email, password, salt) ==
  LET user == authenticate_user(email, password)
  IN IF user = 0
     THEN [users |-> users,
           branch |-> IF get_user_by_email(email) = 0 THEN "not_found"
                      ELSE "bad_password",
           resp |-> HttpError(401, "Incorrect email or password",
                              "WWW-Authenticate: Bearer")]
     ELSE LET t == IssueTokens(users, user, salt)
          IN [users |-> t.users, branch |-> "ok", resp |-> t.resp]

\* What the clients hold of the sessions: per user _id the last session call that
\* succeeded and the refresh token it returned (of), and the refresh token that
\* was replaced last (old).  The handlers below leave session to the
\* specification that runs them.
NoSession == [last |-> "none", refresh_token |-> NoToken]
NoSessions == [of |-> <<>>, old |-> NoToken]
Handed(sess, id, op, refresh_token) ==
  [of |-> [sess.of EXCEPT ![id] = [last |-> op, refresh_token |-> refresh_token]],
   old |-> IF sess.of[id].refresh_token \in {refresh_token, NoToken} THEN sess.old
           ELSE sess.of[id].refresh_token]
Opened(sess) == [sess EXCEPT !.of = Append(@, NoSession)]
\* The bearer tokens a client may present: those it was handed, and one no key
\* of the server signed.
Tokens ==
  {NoToken, resp.access_token, resp.refresh_token, session.old}
    \cup {session.of[i].refresh_token : i \in 1..Len(session.of)}

login(identifier, password) ==
  \E salt \in Salts :
    LET out == LoginRun(identifier, password, salt)
    IN /\ users' = out.users
       /\ resp' = out.resp
       /\ call' = AuthCall("login", identifier, password, out.branch)
       /\ UNCHANGED <<now, storeVars, seqVars, concVars>>

login_with_email(email, password) ==
  \E salt \in Salts :
    LET out == LoginWithEmailRun(email, password, salt)
    IN /\ users' = out.users
       /\ resp' = out.resp
       /\ call' = AuthCall("login_with_email", email, password, out.branch)
       /\ UNCHANGED <<now, storeVars, seqVars, concVars>>

\* user_dict of create_user and register: no refresh_token, no reset code.
user_dict(username, email, hashed_password) ==
  [username |-> username, email |-> email, password |-> hashed_password,
   refresh_token |-> NoHash(NoToken), reset_code |-> NoCode,
   reset_code_expiry |-> NoExpiry]

\* create_user, from the two lookups to the response: 400 on a stored username
\* or a stored email, else insert_one.
CreateUserRun(username, email, password, salt) ==
  IF FindByUsername(users, username) # 0
  THEN [users |-> users, branch |-> "username_exists",
        resp |-> HttpError(400, "Username already exists", NoHeaders)]
  ELSE IF FindByEmail(users, email) # 0
  THEN [users |-> users, branch |-> "email_exists",
        resp |-> HttpError(400, "Email already in use", NoHeaders)]
  ELSE LET inserted ==
             Append(users, user_dict(username, email,
                                     get_password_hash(password, salt)))
       IN [users |-> inserted, branch |-> "ok",
           resp |-> user_helper(inserted, Len(inserted))]

\* A register that looks up the username only.
RegisterRun_username_only(username, email, password, salt1, salt2) ==
  IF FindByUsername(users, username) # 0
  THEN [users |-> users, branch |-> "username_exists",
        resp |-> HttpError(400, "Username already exists", NoHeaders)]
  ELSE LET inserted ==
             Append(users, user_dict(username, email,
                                     get_password_hash(password, salt1)))
           t == IssueTokens(inserted, Len(inserted), salt2)
       IN [users |-> t.users, branch |-> "ok", resp |-> t.resp]

\* register, from the two lookups to the response: 400 on a stored username or a
\* stored email, else insert_one, the two tokens and the stored hash of the
\* refresh token.
RegisterRun(username, email, password, salt1, salt2) ==
  IF FindByUsername(users, username) # 0
  THEN [users |-> users, branch |-> "username_exists",
        resp |-> HttpError(400, "Username already exists", NoHeaders)]
  ELSE IF FindByEmail(users, email) # 0
  THEN [users |-> users, branch |-> "email_exists",
        resp |-> HttpError(400, "Email already in use", NoHeaders)]
  ELSE LET inserted ==
             Append(users, user_dict(username, email,
                                     get_password_hash(password, salt1)))
           t == IssueTokens(inserted, Len(inserted), salt2)
       IN [users |-> t.users, branch |-> "ok", resp |-> t.resp]

create_user(username, email, password) ==
  \E salt \in Salts :
    LET out == CreateUserRun(username, email, password, salt)
    IN /\ users' = out.users
       /\ resp' = out.resp
       /\ call' = AuthCall("create_user", username, password, out.branch)
       /\ UNCHANGED <<now, storeVars, seqVars, concVars>>

register(username, email, password) ==
  \E salt1 \in Salts, salt2 \in Salts :
    LET out == RegisterRun(username, email, password, salt1, salt2)
    IN /\ users' = out.users
       /\ resp' = out.resp
       /\ call' = AuthCall("register", username, password, out.branch)
       /\ UNCHANGED <<now, storeVars, seqVars, concVars>>

\* get_current_user: the _id of the user the bearer token names, or 0 where the
\* code raises credentials_exception.  jwt.decode raises JWTError on a token the
\* key did not sign and on one past its exp.
credentials_exception ==
  HttpError(401, "Could not validate credentials", "WWW-Authenticate: Bearer")
get_current_user(coll, token) ==
  IF token.key # SECRET_KEY \/ token.exp < now THEN 0
  ELSE IF token.sub = 0 THEN 0
  ELSE IF token.sub \notin 1..Len(coll) THEN 0
  ELSE token.sub

\* A logout that leaves the stored hash.
UnsetRefreshToken_keeps(coll, id) == coll

\* users_collection.update_one({"_id": id}, {"$unset": {"refresh_token": ""}}).
UnsetRefreshToken(coll, id) ==
  [i \in 1..Len(coll) |->
     IF i = id THEN [coll[i] EXCEPT !.refresh_token = NoHash(NoToken)]
     ELSE coll[i]]

\* logout, from the dependency get_current_user to the response.
LogoutRun(token) ==
  LET current_user == get_current_user(users, token)
  IN IF current_user = 0
     THEN [users |-> users, branch |-> "unauthenticated", user |-> 0,
           resp |-> credentials_exception]
     ELSE [users |-> UnsetRefreshToken(users, current_user), branch |-> "ok",
           user |-> current_user, resp |-> Message("Successfully logged out")]

\* get_current_user_profile, from the dependency get_current_user to the response.
GetCurrentUserProfileRun(token) ==
  LET current_user == get_current_user(users, token)
  IN IF current_user = 0
     THEN [users |-> users, branch |-> "unauthenticated", user |-> 0,
           resp |-> credentials_exception]
     ELSE [users |-> users, branch |-> "ok", user |-> current_user,
           resp |-> user_helper(users, current_user)]

logout(token) ==
  LET out == LogoutRun(token)
  IN /\ users' = out.users
     /\ resp' = out.resp
     /\ call' = [AuthCall("logout", <<>>, "", out.branch) EXCEPT
                   !.user = out.user]
     /\ UNCHANGED <<now, storeVars, seqVars, concVars>>

get_current_user_profile(token) ==
  LET out == GetCurrentUserProfileRun(token)
  IN /\ users' = out.users
     /\ resp' = out.resp
     /\ call' = [AuthCall("get_current_user_profile", <<>>, "", out.branch)
                   EXCEPT !.user = out.user]
     /\ UNCHANGED <<now, storeVars, seqVars, concVars>>

\* users_collection.update_one({"_id": id}, {"$set": {"password": hash}}).
SetPassword(coll, id, hashed_password) ==
  [i \in 1..Len(coll) |->
     IF i = id THEN [coll[i] EXCEPT !.password = hashed_password] ELSE coll[i]]

\* A change_password that does not look at current_password.
ChangePasswordRun_unchecked(coll, token, current_password, new_password, salt) ==
  LET current_user == get_current_user(coll, token)
  IN IF current_user = 0
     THEN [users |-> coll, branch |-> "unauthenticated", user |-> 0,
           resp |-> credentials_exception]
     ELSE [users |-> SetPassword(coll, current_user,
                                 get_password_hash(new_password, salt)),
           branch |-> "ok", user |-> current_user,
           resp |-> Message("Password changed successfully")]

\* change_password, from the dependency get_current_user to the response.
ChangePasswordRun(coll, token, current_password, new_password, salt) ==
  LET current_user == get_current_user(coll, token)
  IN IF current_user = 0
     THEN [users |-> coll, branch |-> "unauthenticated", user |-> 0,
           resp |-> credentials_exception]
     ELSE IF ~verify_password(current_password, coll[current_user].password)
     THEN [users |-> coll, branch |-> "wrong_current", user |-> current_user,
           resp |-> HttpError(400, "Current password is incorrect", NoHeaders)]
     ELSE [users |-> SetPassword(coll, current_user,
                                 get_password_hash(new_password, salt)),
           branch |-> "ok", user |-> current_user,
           resp |-> Message("Password changed successfully")]

change_password(token, current_password, new_password) ==
  \E salt \in Salts :
    LET out == ChangePasswordRun(users, token, current_password, new_password,
                                 salt)
    IN /\ users' = out.users
       /\ resp' = out.resp
       /\ call' = [AuthCall("change_password", <<>>, current_password, out.branch)
                     EXCEPT !.user = out.user, !.new_password = new_password]
       /\ UNCHANGED <<now, storeVars, seqVars, concVars>>

\* A request_password_reset that leaves a pending code and its expiry in place.
RequestPasswordResetRun_keeps_pending(coll, email, n) ==
  LET user == FindByEmail(coll, email)
      reset_code == Str(n)
      expiry == now + Hour
      resp_ok == [Message("If the email exists, a reset code has been sent.")
                    EXCEPT !.dev_only = [present |-> TRUE, reset_code |-> reset_code,
                                         email |-> email]]
  IN IF user = 0
     THEN [users |-> coll, branch |-> "not_found", user |-> 0,
           resp |-> Message("If the email exists, a reset code has been sent.")]
     ELSE IF coll[user].reset_code.present
     THEN [users |-> coll, branch |-> "ok", user |-> user, resp |-> resp_ok]
     ELSE [users |->
             [i \in 1..Len(coll) |->
                IF i = user
                THEN [coll[i] EXCEPT
                        !.reset_code = [present |-> TRUE, value |-> reset_code],
                        !.reset_code_expiry = [present |-> TRUE, value |-> expiry]]
                ELSE coll[i]],
           branch |-> "ok", user |-> user, resp |-> resp_ok]

\* request_password_reset, from the lookup to the response; n is the number
\* random.randint draws.  The call record keeps, in code, the code that was
\* pending before the request.
RequestPasswordResetRun(coll, email, n) ==
  LET user == FindByEmail(coll, email)
      reset_code == Str(n)
      expiry == now + Hour
  IN IF user = 0
     THEN [users |-> coll, branch |-> "not_found", user |-> 0,
           resp |-> Message("If the email exists, a reset code has been sent.")]
     ELSE [users |->
             [i \in 1..Len(coll) |->
                IF i = user
                THEN [coll[i] EXCEPT
                        !.reset_code = [present |-> TRUE, value |-> reset_code],
                        !.reset_code_expiry = [present |-> TRUE, value |-> expiry]]
                ELSE coll[i]],
           branch |-> "ok", user |-> user,
           resp |-> [Message("If the email exists, a reset code has been sent.")
                       EXCEPT !.dev_only = [present |-> TRUE,
                                            reset_code |-> reset_code,
                                            email |-> email]]]

request_password_reset(email) ==
  \E n \in RandInts :
    LET out == RequestPasswordResetRun(users, email, n)
    IN /\ users' = out.users
       /\ resp' = out.resp
       /\ call' = [AuthCall("request_password_reset", email, "", out.branch)
                     EXCEPT !.user = out.user,
                            !.code = IF out.user = 0 THEN <<>>
                                     ELSE users[out.user].reset_code.value]
       /\ UNCHANGED <<now, storeVars, seqVars, concVars>>

\* update_one({"_id": id}, {"$set": {"password": hash},
\*                          "$unset": {"reset_code": "", "reset_code_expiry": ""}}).
ResetPassword_keeps_code(coll, id, hashed_password) ==
  SetPassword(coll, id, hashed_password)
ResetPassword(coll, id, hashed_password) ==
  [i \in 1..Len(coll) |->
     IF i = id
     THEN [coll[i] EXCEPT !.password = hashed_password, !.reset_code = NoCode,
                          !.reset_code_expiry = NoExpiry]
     ELSE coll[i]]

\* A confirm_password_reset that does not look at the expiry.
ConfirmPasswordResetRun_no_expiry(coll, email, reset_code, new_password, salt) ==
  LET user == FindByEmail(coll, email)
      bad(branch, detail) == [users |-> coll, branch |-> branch, user |-> user,
                              resp |-> HttpError(400, detail, NoHeaders)]
  IN IF user = 0 THEN bad("not_found", "Invalid email or reset code")
     ELSE IF ~coll[user].reset_code.present
             \/ ~coll[user].reset_code_expiry.present
     THEN bad("no_code", "No reset code requested or it has expired")
     ELSE IF coll[user].reset_code.value # reset_code
     THEN bad("mismatch", "Invalid reset code")
     ELSE [users |-> ResetPassword(coll, user,
                                   get_password_hash(new_password, salt)),
           branch |-> "ok", user |-> user,
           resp |-> Message("Password has been reset successfully")]

\* confirm_password_reset, from the lookup to the response.
ConfirmPasswordResetRun(coll, email, reset_code, new_password, salt) ==
  LET user == FindByEmail(coll, email)
      bad(branch, detail) == [users |-> coll, branch |-> branch, user |-> user,
                              resp |-> HttpError(400, detail, NoHeaders)]
  IN IF user = 0 THEN bad("not_found", "Invalid email or reset code")
     ELSE IF ~coll[user].reset_code.present
             \/ ~coll[user].reset_code_expiry.present
     THEN bad("no_code", "No reset code requested or it has expired")
     ELSE IF coll[user].reset_code.value # reset_code
     THEN bad("mismatch", "Invalid reset code")
     ELSE IF now > coll[user].reset_code_expiry.value
     THEN bad("expired", "Reset code has expired")
     ELSE [users |-> ResetPassword(coll, user,
                                   get_password_hash(new_password, salt)),
           branch |-> "ok", user |-> user,
           resp |-> Message("Password has been reset successfully")]

confirm_password_reset(email, reset_code, new_password) ==
  \E salt \in Salts :
    LET out == ConfirmPasswordResetRun(users, email, reset_code, new_password,
                                       salt)
    IN /\ users' = out.users
       /\ resp' = out.resp
       /\ call' = [AuthCall("confirm_password_reset", email, "", out.branch)
                     EXCEPT !.user = out.user, !.code = reset_code,
                            !.new_password = new_password]
       /\ UNCHANGED <<now, storeVars, seqVars, concVars>>

\* Time passes between two requests.
Tick ==
  /\ now < MaxTime * Hour
  /\ now' = now + Hour
  /\ UNCHANGED <<users, resp, call, session, storeVars, seqVars, concVars>>

InitAuth ==
  /\ users = <<>>
  /\ now = 0
  /\ resp = NoResp
  /\ call = NoAuthCall
  /\ session = NoSessions

\* A request in flight: where it is (pc), its arguments and its local variables.
NoReq ==
  [pc |-> "idle", handler |-> "", id |-> "", user |-> 0, vote_type |-> "",
   doc |-> NoDoc, op |-> NoOp, status |-> 0, detail |-> "", action |-> "absent",
   body |-> NoBody, base |-> NoDoc, first |-> FALSE,
   username |-> <<>>, email |-> <<>>, password |-> "", inserted_id |-> 0,
   resp |-> NoResp, comment_id |-> "", attempts |-> <<>>, up |-> NoUpload,
   reset_code |-> <<>>]

InitConc ==
  /\ reqs = [r \in ReqIds |-> NoReq]
  /\ pre = 0

\* ----------------------------------------- requests one after the other: Spec
Init == InitStore /\ InitConc /\ InitAuth

VotePost == 
  \E p \in PostIds, u \in Users, t \in VoteTypes :
    vote_post(p, u, t) /\ UNCHANGED <<concVars, authVars>>

VoteComment ==
  \E c \in CommentIds, u \in Users, t \in VoteTypes :
    vote_comment(c, u, t) /\ UNCHANGED <<concVars, authVars>>

\* The posts the vote specifications create: one author, no image.
PlainPosts == {[title |-> "t1", content |-> "b1", imageUrl |-> None]}
CreatePost ==
  \E p \in PostIds, u \in {1}, post \in PlainPosts : create_post(p, u, post)

CreateComment == \E c \in CommentIds, p \in PostIds : create_comment(c, p)

Next ==
  \/ CreatePost
  \/ CreateComment
  \/ VotePost
  \/ VoteComment

Spec == Init /\ [][Next]_vars

\* ------------------------------ post requests one after the other: SpecPost
\* The bodies of the requests, and what the five uploads of a request come to.
PostCreates == [title : {"t1"}, content : {"b1"}, imageUrl : {None, "u1"}]
PostCreateForms == [title : {"t1"}, content : {"b1"}, image : {None, "file"}]
PostUpdates == [title : {None, "t2"}, content : {None, "b2"},
                imageUrl : {None, "u2"}]
PostUpdateForms == [title : {None, "t2"}, content : {None, "b2"},
                    image : {None, "file"}, remove_image : BOOLEAN]
Attempts ==
  {[k \in DOMAIN IMGBB_API_KEYS |-> "error"],
   [k \in DOMAIN IMGBB_API_KEYS |-> IF k % 2 = 1 THEN "raise" ELSE "error"],
   [k \in DOMAIN IMGBB_API_KEYS |-> "ok"],
   [k \in DOMAIN IMGBB_API_KEYS |->
      IF k = Len(IMGBB_API_KEYS) THEN "ok" ELSE "raise"]}

NextPost ==
  \/ \E p \in PostIds, u \in Users, post \in PostCreates : create_post(p, u, post)
  \/ \E p \in PostIds, u \in Users, d \in PostCreateForms, a \in Attempts :
       create_post_with_image(p, u, d, a)
  \/ CreateComment
  \/ \E p \in PostIds, u \in Users, d \in PostUpdates : update_post(p, u, d)
  \/ \E p \in PostIds, u \in Users, d \in PostUpdateForms, a \in Attempts :
       update_post_with_image(p, u, d, a)
  \/ \E p \in PostIds, u \in Users : delete_post(p, u)

SpecPost == Init /\ [][NextPost]_vars

\* --------------------------------- auth requests one after the other: SpecAuth
Login ==
  \E i \in Identifiers, p \in Passwords : login(i, p) /\ UNCHANGED session

LoginWithEmail ==
  \E e \in Identifiers, p \in Passwords :
    login_with_email(e, p) /\ UNCHANGED session

Register ==
  \E n \in Usernames, e \in Emails, p \in Passwords :
    register(n, e, p) /\ UNCHANGED session

NextAuth ==
  \/ Register
  \/ Login
  \/ LoginWithEmail

SpecAuth == Init /\ [][NextAuth]_vars

\* ------------------------------ accounts created one after the other: SpecSignup
CreateUser ==
  \E n \in Usernames, e \in Emails, p \in Passwords :
    create_user(n, e, p) /\ UNCHANGED session

NextSignup ==
  \/ Register
  \/ CreateUser

SpecSignup == Init /\ [][NextSignup]_vars

\* -------------------------------- session requests one after the other: SpecSession
\* Each client registers with its own username and email and the first password;
\* one client logs in at /token with its username, the other at /login with its
\* email.  session follows what the response of a successful call hands the client.
OwnEmail(username) == <<username[1], "@", "x.com">>
RegisterPasswords == {"pw1"}

SessionRegister ==
  \E n \in Usernames, p \in RegisterPasswords :
    /\ register(n, OwnEmail(n), p)
    /\ session' = IF call'.branch = "ok"
                  THEN Handed(Opened(session), resp'.user_id,
                              "register", resp'.refresh_token)
                  ELSE session

SessionLogin ==
  \E i \in {<<"alice">>}, p \in Passwords :
    /\ login(i, p)
    /\ session' = IF call'.branch = "ok"
                  THEN Handed(session, resp'.user_id, "login",
                              resp'.refresh_token)
                  ELSE session

SessionLoginWithEmail ==
  \E e \in {OwnEmail(<<"bob">>)}, p \in Passwords :
    /\ login_with_email(e, p)
    /\ session' = IF call'.branch = "ok"
                  THEN Handed(session, resp'.user_id, "login_with_email",
                              resp'.refresh_token)
                  ELSE session

Logout ==
  \E t \in Tokens :
    /\ logout(t)
    /\ session' = IF call'.branch = "ok"
                  THEN [session EXCEPT !.of[call'.user].last = "logout"]
                  ELSE session

GetCurrentUserProfile ==
  \E t \in Tokens : get_current_user_profile(t) /\ UNCHANGED session

NextSession ==
  \/ SessionRegister
  \/ SessionLogin
  \/ SessionLoginWithEmail
  \/ Logout
  \/ GetCurrentUserProfile
  \/ Tick

SpecSession == Init /\ [][NextSession]_vars

\* ------------------------------------ two requests that interleave: SpecConc
\* A handler runs up to its next await in one step: the store call it awaits is
\* atomic, and the code between two awaits touches only the request's own
\* variables.  pc names the store call the request is about to make.
AllIdle == \A r \in ReqIds : reqs[r].pc = "idle"

\* A vote that runs to completion before either concurrent request has arrived.
PreVotePost ==
  /\ pre < MaxPre /\ AllIdle
  /\ \E p \in PostIds, u \in Users, t \in ValidVoteTypes :
       posts' = [posts EXCEPT ![p] = VotePostRun(@, u, t).doc]
  /\ pre' = pre + 1
  /\ UNCHANGED <<comments, seqVars, reqs, authVars>>

PreVoteComment ==
  /\ pre < MaxPre /\ AllIdle
  /\ \E c \in CommentIds, u \in Users, t \in ValidVoteTypes :
       comments' = [comments EXCEPT ![c] = VoteCommentRun(@, u, t).doc]
  /\ pre' = pre + 1
  /\ UNCHANGED <<posts, seqVars, reqs, authVars>>

\* A vote request arrives, already authenticated as user_id.
StartVotePost(r) ==
  /\ reqs[r].pc = "idle"
  /\ \E p \in PostIds, u \in Users, t \in VoteTypes :
       reqs' = [reqs EXCEPT ![r] = [NoReq EXCEPT !.pc = "find", !.handler = "vote_post",
                                           !.id = p, !.user = u, !.vote_type = t]]
  /\ UNCHANGED <<storeVars, seqVars, pre, authVars>>

StartVoteComment(r) ==
  /\ reqs[r].pc = "idle"
  /\ \E c \in CommentIds, u \in Users, t \in VoteTypes :
       reqs' = [reqs EXCEPT ![r] = [NoReq EXCEPT !.pc = "find",
                                           !.handler = "vote_comment",
                                           !.id = c, !.user = u, !.vote_type = t]]
  /\ UNCHANGED <<storeVars, seqVars, pre, authVars>>

\* Kept for the claims, read by no handler: base is the document as the request's
\* first find_one returned it, first says that no other request had read yet.
Observed(r, req, doc) ==
  [req EXCEPT !.base = doc,
              !.first = \A o \in ReqIds \ {r} : reqs[o].pc \in {"idle", "find"}]

\* vote_post from the document it holds to its next store call or its return.
VotePostContinue(req, post) ==
  LET d == vote_post_decide(post, req.user, req.vote_type)
  IN CASE d.kind = "return" ->
            [req EXCEPT !.pc = "done", !.doc = post, !.status = 200,
                        !.action = "none", !.body = post_helper(post)]
       [] d.kind = "raise" ->
            [req EXCEPT !.pc = "done", !.doc = post, !.status = 400,
                        !.detail = d.message]
       [] OTHER -> [req EXCEPT !.pc = "update", !.doc = post, !.op = d.op]

VoteCommentContinue(req, comment) ==
  LET d == vote_comment_decide(comment, req.user, req.vote_type)
  IN CASE d.kind = "return" ->
            [req EXCEPT !.pc = "done", !.doc = comment, !.status = 200,
                        !.action = "none", !.body = comment_helper(comment)]
       [] d.kind = "raise" ->
            [req EXCEPT !.pc = "done", !.doc = comment, !.status = 400,
                        !.detail = d.message]
       [] OTHER -> [req EXCEPT !.pc = "update", !.doc = comment, !.op = d.op]

\* post = await posts_collection.find_one(...): 404, or the lazy initialisation
\* when the document read has no voters field, or the transition.
VotePostFind(r) ==
  /\ reqs[r].pc = "find" /\ reqs[r].handler = "vote_post"
  /\ LET post == posts[reqs[r].id]
     IN reqs' = [reqs EXCEPT ![r] =
          IF ~post.exists
          THEN [@ EXCEPT !.pc = "done", !.status = 404, !.detail = "Post not found"]
          ELSE IF ~post.voters.present
               THEN [Observed(r, @, post) EXCEPT !.pc = "set_voters", !.doc = post]
               ELSE VotePostContinue(Observed(r, @, post), post)]
  /\ UNCHANGED <<storeVars, seqVars, pre, authVars>>

\* await posts_collection.update_one(..., {"$set": {"voters": ...}}).
VotePostSetVoters(r) ==
  /\ reqs[r].pc = "set_voters" /\ reqs[r].handler = "vote_post"
  /\ posts' = [posts EXCEPT ![reqs[r].id] = SetVotersEmpty(@)]
  /\ reqs' = [reqs EXCEPT ![r].pc = "find_again"]
  /\ UNCHANGED <<comments, seqVars, pre, authVars>>

\* post = await posts_collection.find_one(...) after the initialisation.
VotePostFindAgain(r) ==
  /\ reqs[r].pc = "find_again" /\ reqs[r].handler = "vote_post"
  /\ reqs' = [reqs EXCEPT ![r] = VotePostContinue(@, posts[reqs[r].id])]
  /\ UNCHANGED <<storeVars, seqVars, pre, authVars>>

\* await posts_collection.update_one({"_id": object_id}, update_operation).
VotePostUpdate(r) ==
  /\ reqs[r].pc = "update" /\ reqs[r].handler = "vote_post"
  /\ posts' = [posts EXCEPT ![reqs[r].id] = ApplyUpdate(@, reqs[r].op, reqs[r].user)]
  /\ reqs' = [reqs EXCEPT ![r].pc = "find_updated"]
  /\ UNCHANGED <<comments, seqVars, pre, authVars>>

\* updated_post = await posts_collection.find_one(...); return post_helper(...).
VotePostFindUpdated(r) ==
  /\ reqs[r].pc = "find_updated" /\ reqs[r].handler = "vote_post"
  /\ reqs' = [reqs EXCEPT ![r] = [@ EXCEPT !.pc = "done", !.status = 200,
                                           !.body = post_helper(posts[reqs[r].id])]]
  /\ UNCHANGED <<storeVars, seqVars, pre, authVars>>

VoteCommentFind(r) ==
  /\ reqs[r].pc = "find" /\ reqs[r].handler = "vote_comment"
  /\ LET comment == comments[reqs[r].id]
     IN reqs' = [reqs EXCEPT ![r] =
          IF ~comment.exists
          THEN [@ EXCEPT !.pc = "done", !.status = 404,
                         !.detail = "Comment not found"]
          ELSE IF ~comment.voters.present
               THEN [Observed(r, @, comment) EXCEPT !.pc = "set_voters",
                                                    !.doc = comment]
               ELSE VoteCommentContinue(Observed(r, @, comment), comment)]
  /\ UNCHANGED <<storeVars, seqVars, pre, authVars>>

VoteCommentSetVoters(r) ==
  /\ reqs[r].pc = "set_voters" /\ reqs[r].handler = "vote_comment"
  /\ comments' = [comments EXCEPT ![reqs[r].id] = SetVotersEmpty(@)]
  /\ reqs' = [reqs EXCEPT ![r].pc = "find_again"]
  /\ UNCHANGED <<posts, seqVars, pre, authVars>>

VoteCommentFindAgain(r) ==
  /\ reqs[r].pc = "find_again" /\ reqs[r].handler = "vote_comment"
  /\ reqs' = [reqs EXCEPT ![r] = VoteCommentContinue(@, comments[reqs[r].id])]
  /\ UNCHANGED <<storeVars, seqVars, pre, authVars>>

VoteCommentUpdate(r) ==
  /\ reqs[r].pc = "update" /\ reqs[r].handler = "vote_comment"
  /\ comments' = [comments EXCEPT ![reqs[r].id] =
                    ApplyUpdate(@, reqs[r].op, reqs[r].user)]
  /\ reqs' = [reqs EXCEPT ![r].pc = "find_updated"]
  /\ UNCHANGED <<posts, seqVars, pre, authVars>>

VoteCommentFindUpdated(r) ==
  /\ reqs[r].pc = "find_updated" /\ reqs[r].handler = "vote_comment"
  /\ reqs' = [reqs EXCEPT ![r] = [@ EXCEPT !.pc = "done", !.status = 200,
                                           !.body = comment_helper(comments[reqs[r].id])]]
  /\ UNCHANGED <<storeVars, seqVars, pre, authVars>>

NextConc ==
  \/ CreatePost
  \/ CreateComment
  \/ PreVotePost
  \/ PreVoteComment
  \/ \E r \in ReqIds : StartVotePost(r)
  \/ \E r \in ReqIds : StartVoteComment(r)
  \/ \E r \in ReqIds : VotePostFind(r)
  \/ \E r \in ReqIds : VotePostSetVoters(r)
  \/ \E r \in ReqIds : VotePostFindAgain(r)
  \/ \E r \in ReqIds : VotePostUpdate(r)
  \/ \E r \in ReqIds : VotePostFindUpdated(r)
  \/ \E r \in ReqIds : VoteCommentFind(r)
  \/ \E r \in ReqIds : VoteCommentSetVoters(r)
  \/ \E r \in ReqIds : VoteCommentFindAgain(r)
  \/ \E r \in ReqIds : VoteCommentUpdate(r)
  \/ \E r \in ReqIds : VoteCommentFindUpdated(r)

SpecConc == Init /\ [][NextConc]_vars

\* ------------------------------ password changes one after the other: SpecPassword
ChangePassword ==
  \E t \in Tokens, c \in Passwords, p \in Passwords :
    change_password(t, c, p) /\ UNCHANGED session

NextPassword ==
  \/ SessionRegister
  \/ ChangePassword

SpecPassword == Init /\ [][NextPassword]_vars

\* ------------------------------- password resets one after the other: SpecReset
\* The resets are those of one email, before and after its user registers, with
\* the other user stored or not.
ResetEmails == {OwnEmail(<<"alice">>)}

RequestPasswordReset ==
  \E e \in ResetEmails : request_password_reset(e) /\ UNCHANGED session

ConfirmPasswordReset ==
  \E e \in ResetEmails, c \in ResetCodes, p \in Passwords :
    confirm_password_reset(e, c, p) /\ UNCHANGED session

NextReset ==
  \/ SessionRegister
  \/ RequestPasswordReset
  \/ ConfirmPasswordReset
  \/ Tick

SpecReset == Init /\ [][NextReset]_vars

\* ------------------------------------ two sign-ups that interleave: SpecSignupConc
\* register and create_user, one store call a step.
SignupHandlers == {"register", "create_user"}

StartSignup(r) ==
  /\ reqs[r].pc = "idle"
  /\ \E h \in SignupHandlers, n \in Usernames, e \in Emails,
        p \in RegisterPasswords :
       reqs' = [reqs EXCEPT ![r] = [NoReq EXCEPT !.pc = "find_username",
                                           !.handler = h, !.username = n,
                                           !.email = e, !.password = p]]
  /\ UNCHANGED <<storeVars, seqVars, pre, authVars>>

\* existing_user = find_one({"username": ...}); 400 if there is one.
SignupFindUsername(r) ==
  /\ reqs[r].pc = "find_username"
  /\ reqs' = [reqs EXCEPT ![r] =
       IF FindByUsername(users, @.username) # 0
       THEN [@ EXCEPT !.pc = "done", !.status = 400,
                      !.detail = "Username already exists",
                      !.resp = HttpError(400, "Username already exists", NoHeaders)]
       ELSE [@ EXCEPT !.pc = "find_email"]]
  /\ UNCHANGED <<storeVars, seqVars, pre, authVars>>

\* existing_email = find_one({"email": ...}); 400 if there is one.
SignupFindEmail(r) ==
  /\ reqs[r].pc = "find_email"
  /\ reqs' = [reqs EXCEPT ![r] =
       IF FindByEmail(users, @.email) # 0
       THEN [@ EXCEPT !.pc = "done", !.status = 400,
                      !.detail = "Email already in use",
                      !.resp = HttpError(400, "Email already in use", NoHeaders)]
       ELSE [@ EXCEPT !.pc = "insert"]]
  /\ UNCHANGED <<storeVars, seqVars, pre, authVars>>

\* insert_one(user_dict) with the password hashed.
SignupInsert(r) ==
  /\ reqs[r].pc = "insert"
  /\ \E salt \in Salts :
       users' = Append(users, user_dict(reqs[r].username, reqs[r].email,
                                        get_password_hash(reqs[r].password, salt)))
  /\ reqs' = [reqs EXCEPT ![r] = [@ EXCEPT !.pc = "find_inserted",
                                         !.inserted_id = Len(users) + 1]]
  /\ UNCHANGED <<storeVars, seqVars, pre, now, resp, call, session>>

\* new_user = find_one({"_id": inserted_id}); create_user returns it, register
\* goes on to the tokens.
SignupFindInserted(r) ==
  /\ reqs[r].pc = "find_inserted"
  /\ reqs' = [reqs EXCEPT ![r] =
       IF @.handler = "create_user"
       THEN [@ EXCEPT !.pc = "done", !.status = 200,
                      !.resp = user_helper(users, reqs[r].inserted_id)]
       ELSE [@ EXCEPT !.pc = "set_refresh_token"]]
  /\ UNCHANGED <<storeVars, seqVars, pre, authVars>>

\* register: the two tokens, update_one $set refresh_token, and the response.
RegisterSetRefreshToken(r) ==
  /\ reqs[r].pc = "set_refresh_token"
  /\ \E salt \in Salts :
       LET t == IssueTokens(users, reqs[r].inserted_id, salt)
       IN /\ users' = t.users
          /\ reqs' = [reqs EXCEPT ![r] = [@ EXCEPT !.pc = "done", !.status = 200,
                                                 !.resp = t.resp]]
  /\ UNCHANGED <<storeVars, seqVars, pre, now, resp, call, session>>

NextSignupConc ==
  \/ \E r \in ReqIds : StartSignup(r)
  \/ \E r \in ReqIds : SignupFindUsername(r)
  \/ \E r \in ReqIds : SignupFindEmail(r)
  \/ \E r \in ReqIds : SignupInsert(r)
  \/ \E r \in ReqIds : SignupFindInserted(r)
  \/ \E r \in ReqIds : RegisterSetRefreshToken(r)

SpecSignupConc == Init /\ [][NextSignupConc]_vars

\* =================================================================== claims
\* The documents of all posts and comments that exist.
Reactables ==
  {posts[p] : p \in {q \in PostIds : posts[q].exists}}
    \cup {comments[c] : c \in {d \in CommentIds : comments[d].exists}}

\* The users in a voter list, and the number of times one occurs in it.
Members(list) == {list[i] : i \in 1..Len(list)}
Occurrences(x, list) == Cardinality({i \in 1..Len(list) : list[i] = x})

\* What a client sees of a document: counters and voter lists, an absent voters
\* field read as two empty lists.
View(doc) ==
  [upvotes |-> doc.upvotes, downvotes |-> doc.downvotes,
   upvoters |-> IF doc.voters.present THEN doc.voters.upvoters ELSE <<>>,
   downvoters |-> IF doc.voters.present THEN doc.voters.downvoters ELSE <<>>]

LastIsVote == last.op \in {"vote_post", "vote_comment"} /\ last.status # 404
\* The document the last vote request was about, as it is now.
LastDoc ==
  IF last.op = "vote_post" THEN posts[last.id]
  ELSE IF last.op = "vote_comment" THEN comments[last.id] ELSE NoDoc
Before == View(last.before)
After == View(LastDoc)

\* C1: after any sequence of vote_post / vote_comment calls, each run to completion,
\* no user is in both upvoters and downvoters of the same post or comment.
C1_NeverInBoth ==
  \A r \in Reactables :
    Members(View(r).upvoters) \cap Members(View(r).downvoters) = {}

\* C1 witness: a user who was a downvoter has upvoted (the move between the lists).
C1_Witness ==
  /\ LastIsVote /\ last.vote_type = "upvote" /\ last.writes > 0
  /\ last.user \in Members(Before.downvoters)
  /\ last.user \in Members(After.upvoters)

\* C2: after every vote call the stored upvotes counter is the number of entries of
\* voters.upvoters and the stored downvotes counter that of voters.downvoters.
C2_CountersMatchLists ==
  \A r \in Reactables :
    /\ r.upvotes = Len(View(r).upvoters)
    /\ r.downvotes = Len(View(r).downvoters)

\* C2 witness: a vote has written a document that has both an upvoter and a downvoter.
C2_Witness ==
  /\ LastIsVote /\ last.writes > 0
  /\ After.upvotes >= 1 /\ After.downvotes >= 1

\* The document a request is or was about, as it is stored now.
ReqDoc(req) ==
  IF req.handler = "vote_post" THEN posts[req.id]
  ELSE IF req.handler = "vote_comment" THEN comments[req.id] ELSE NoDoc

\* Both requests have returned, both found the same document and both carried one
\* of the four vote types.
BothVoted ==
  /\ \A r \in ReqIds : /\ reqs[r].pc = "done"
                       /\ reqs[r].status # 404
                       /\ reqs[r].vote_type \in ValidVoteTypes
  /\ reqs["r1"].handler = reqs["r2"].handler
  /\ reqs["r1"].id = reqs["r2"].id

\* The vote of a request has landed in what a client sees of the document.
Landed(req, v) ==
  CASE req.vote_type = "upvote" ->
         req.user \in Members(v.upvoters) /\ req.user \notin Members(v.downvoters)
    [] req.vote_type = "downvote" ->
         req.user \in Members(v.downvoters) /\ req.user \notin Members(v.upvoters)
    [] req.vote_type = "remove_upvote" -> req.user \notin Members(v.upvoters)
    [] req.vote_type = "remove_downvote" -> req.user \notin Members(v.downvoters)
    [] OTHER -> TRUE

Consistent(v) ==
  /\ v.upvotes = Len(v.upvoters) /\ v.downvotes = Len(v.downvoters)
  /\ v.upvotes >= 0 /\ v.downvotes >= 0
  /\ \A u \in Users :
       Occurrences(u, v.upvoters) + Occurrences(u, v.downvoters) <= 1

\* C3: when two vote requests of two different users on the same post or comment
\* interleave, both votes have landed once both requests have returned: each user
\* is in the list voted for and the counters are the sizes of the lists.
C3_BothVotesLand ==
  (BothVoted /\ reqs["r1"].user # reqs["r2"].user) =>
    LET v == View(ReqDoc(reqs["r1"]))
    IN /\ Landed(reqs["r1"], v)
       /\ Landed(reqs["r2"], v)
       /\ v.upvotes = Len(v.upvoters)
       /\ v.downvotes = Len(v.downvoters)

\* What the document is after request a and then request b, each run on its own.
Serial(doc, a, b) ==
  IF a.handler = "vote_post"
  THEN VotePostRun(VotePostRun(doc, a.user, a.vote_type).doc, b.user, b.vote_type).doc
  ELSE VoteCommentRun(VoteCommentRun(doc, a.user, a.vote_type).doc,
                      b.user, b.vote_type).doc

\* C4: when two vote requests of the same user on the same post or comment
\* interleave, the document they leave is the one that one of the two serial orders
\* leaves: the user is in at most one list, at most once, and both counters are the
\* sizes of the lists and not negative.
C4_SameUserSerializes ==
  (BothVoted /\ reqs["r1"].user = reqs["r2"].user) =>
    LET v == View(ReqDoc(reqs["r1"]))
        b0 == IF reqs["r1"].first THEN reqs["r1"].base ELSE reqs["r2"].base
    IN /\ Consistent(v)
       /\ \/ v = View(Serial(b0, reqs["r1"], reqs["r2"]))
          \/ v = View(Serial(b0, reqs["r2"], reqs["r1"]))

\* C5: a vote call that repeats the call before it (same handler, document, user and
\* valid vote_type, nothing in between) writes nothing, leaves the document as it
\* was and answers with action "none".
C5_RepeatIsNoOp ==
  (LastIsVote /\ last.repeat /\ last.vote_type \in ValidVoteTypes) =>
    /\ last.writes = 0
    /\ last.action = "none"
    /\ last.status = 200
    /\ LastDoc = last.before

\* C5 witness: an upvote repeated on a document that holds the user's upvote.
C5_Witness ==
  /\ LastIsVote /\ last.repeat /\ last.vote_type = "upvote"
  /\ last.user \in Members(After.upvoters)

\* C6 as claimed: upvote by u then remove_upvote by u restores the upvoters, the
\* downvoters and both counters of before the upvote, whatever the state was.
C6_RoundTripAnyState ==
  (LastIsVote /\ last.after_upvote) => After = View(last.upvote_before)

\* C6 amended: upvote by u then remove_upvote by u restores the upvoters, the
\* downvoters and both counters of before the upvote when u was in neither list
\* before the upvote.
C6_RoundTripFromNeither ==
  (/\ LastIsVote /\ last.after_upvote
   /\ last.user \notin Members(View(last.upvote_before).upvoters)
   /\ last.user \notin Members(View(last.upvote_before).downvoters))
  => After = View(last.upvote_before)

\* C6 witness: the round trip has run on a document that holds another user's vote.
C6_Witness ==
  /\ LastIsVote /\ last.after_upvote /\ last.writes = 1
  /\ last.user \notin Members(View(last.upvote_before).upvoters)
  /\ last.user \notin Members(View(last.upvote_before).downvoters)
  /\ After.upvotes + After.downvotes >= 1

\* C7: an upvote by a user who is in downvoters puts the user in upvoters, takes the
\* user out of downvoters, adds 1 to upvotes and takes 1 from downvotes, and both
\* counters are >= 0 afterwards; the same with the roles exchanged for a downvote
\* by a user who is in upvoters.
C7_Switch ==
  /\ (LastIsVote /\ last.vote_type = "upvote"
      /\ last.user \in Members(Before.downvoters)) =>
       /\ last.user \in Members(After.upvoters)
       /\ last.user \notin Members(After.downvoters)
       /\ After.upvotes = Before.upvotes + 1
       /\ After.downvotes = Before.downvotes - 1
       /\ After.upvotes >= 0 /\ After.downvotes >= 0
  /\ (LastIsVote /\ last.vote_type = "downvote"
      /\ last.user \in Members(Before.upvoters)) =>
       /\ last.user \in Members(After.downvoters)
       /\ last.user \notin Members(After.upvoters)
       /\ After.downvotes = Before.downvotes + 1
       /\ After.upvotes = Before.upvotes - 1
       /\ After.upvotes >= 0 /\ After.downvotes >= 0

\* C7 witness: a downvote by a user who was an upvoter has been applied.
C7_Witness ==
  /\ LastIsVote /\ last.vote_type = "downvote"
  /\ last.user \in Members(Before.upvoters)
  /\ last.user \in Members(After.downvoters)

\* The transition table of the specification, on sets of users and two counters.
TableEffect(v, u, vote_type) ==
  LET up == Members(v.upvoters)
      down == Members(v.downvoters)
      same == [up |-> up, down |-> down, upvotes |-> v.upvotes,
               downvotes |-> v.downvotes]
  IN CASE vote_type = "upvote" /\ u \in up -> same
       [] vote_type = "upvote" /\ u \notin up /\ u \in down ->
            [up |-> up \cup {u}, down |-> down \ {u},
             upvotes |-> v.upvotes + 1, downvotes |-> v.downvotes - 1]
       [] vote_type = "upvote" /\ u \notin up /\ u \notin down ->
            [up |-> up \cup {u}, down |-> down,
             upvotes |-> v.upvotes + 1, downvotes |-> v.downvotes]
       [] vote_type = "downvote" /\ u \in down -> same
       [] vote_type = "downvote" /\ u \notin down /\ u \in up ->
            [up |-> up \ {u}, down |-> down \cup {u},
             upvotes |-> v.upvotes - 1, downvotes |-> v.downvotes + 1]
       [] vote_type = "downvote" /\ u \notin down /\ u \notin up ->
            [up |-> up, down |-> down \cup {u},
             upvotes |-> v.upvotes, downvotes |-> v.downvotes + 1]
       [] vote_type = "remove_upvote" /\ u \notin up -> same
       [] vote_type = "remove_upvote" /\ u \in up ->
            [up |-> up \ {u}, down |-> down,
             upvotes |-> v.upvotes - 1, downvotes |-> v.downvotes]
       [] vote_type = "remove_downvote" /\ u \notin down -> same
       [] vote_type = "remove_downvote" /\ u \in down ->
            [up |-> up, down |-> down \ {u},
             upvotes |-> v.upvotes, downvotes |-> v.downvotes - 1]
       [] OTHER -> same

\* C8: for each vote_type and each membership of the caller, vote_post changes the
\* membership and the counters as the transition table says; and on a fresh post
\* user 1 upvoting gives (1,0), then user 1 downvoting (0,1), then user 2 upvoting
\* (1,1).
C8_TransitionTable ==
  /\ (last.op = "vote_post" /\ last.status # 404
      /\ last.vote_type \in ValidVoteTypes) =>
       LET want == TableEffect(Before, last.user, last.vote_type)
       IN /\ Members(After.upvoters) = want.up
          /\ Members(After.downvoters) = want.down
          /\ After.upvotes = want.upvotes
          /\ After.downvotes = want.downvotes
          /\ last.status = 200
          /\ (last.action = "none") = (want.up = Members(Before.upvoters)
                                        /\ want.down = Members(Before.downvoters))
  /\ scenario = 1 => (posts["p1"].upvotes = 1 /\ posts["p1"].downvotes = 0)
  /\ scenario = 2 => (posts["p1"].upvotes = 0 /\ posts["p1"].downvotes = 1)
  /\ scenario = 3 => (posts["p1"].upvotes = 1 /\ posts["p1"].downvotes = 1)

\* C8 witness: the scenario has run to its end on the post.
C8_Witness ==
  /\ scenario = 3 /\ last.op = "vote_post" /\ last.user = 2
  /\ Members(After.upvoters) = {2} /\ Members(After.downvoters) = {1}

\* C9: a vote request on an existing post or comment whose vote_type is none of the
\* four fails with status 400 and detail "Invalid vote type", and the counters and
\* the membership of both voter lists are after it as they were before it.
C9_InvalidVoteType ==
  (LastIsVote /\ last.vote_type \notin ValidVoteTypes) =>
    /\ last.status = 400
    /\ last.detail = "Invalid vote type"
    /\ After = Before

\* C9 witness: an invalid vote_type has reached a document that holds votes.
C9_Witness ==
  /\ LastIsVote /\ last.vote_type \in InvalidVoteTypes
  /\ After.upvotes >= 1 /\ After.downvotes >= 1

\* Some stored user has this identifier as username or as email.
Known(identifier) ==
  \E k \in 1..Len(users) :
    users[k].username = identifier \/ users[k].email = identifier
\* The password is that of no stored user with this identifier.
WrongPassword(identifier, password) ==
  \A k \in 1..Len(users) :
    (users[k].username = identifier \/ users[k].email = identifier)
      => users[k].password.plain # password

\* C10: on each of the two login endpoints, a login with an identifier of no stored
\* user and a login with a stored identifier and a wrong password get the same
\* response (status 401, same detail, same headers), and neither changes a stored
\* user.
C10_LoginHidesExistence ==
  \A i1 \in Identifiers, i2 \in Identifiers, p1 \in Passwords, p2 \in Passwords,
     salt \in Salts :
    (~Known(i1) /\ Known(i2) /\ WrongPassword(i2, p2)) =>
      /\ LET a == LoginRun(i1, p1, salt)
             b == LoginRun(i2, p2, salt)
         IN /\ a.resp = b.resp /\ a.resp.status = 401
            /\ a.users = users /\ b.users = users
      /\ LET a == LoginWithEmailRun(i1, p1, salt)
             b == LoginWithEmailRun(i2, p2, salt)
         IN /\ a.resp = b.resp /\ a.resp.status = 401
            /\ a.users = users /\ b.users = users

\* C10 witness: a login with a stored identifier and a wrong password has been
\* refused while some identifier is that of no stored user.
C10_Witness ==
  /\ call.op = "login" /\ call.branch = "bad_password" /\ resp.status = 401
  /\ Known(call.identifier) /\ WrongPassword(call.identifier, call.password)
  /\ \E i1 \in Identifiers : ~Known(i1)

\* A refresh token the server signed, not expired, of a stored user, whose hash is
\* not the one stored on that user (cleared by logout or replaced by a later login).
Stale(token) ==
  /\ token.refresh
  /\ token.key = SECRET_KEY /\ token.exp >= now
  /\ token.sub \in 1..Len(users)
  /\ ~verify_password(token, users[token.sub].refresh_token)

\* C11: a refresh token is accepted only while its hash matches the hash stored on
\* the user: a request that presents a refresh token handed out earlier, after a
\* logout cleared the stored hash or a later login replaced it, is rejected (401)
\* although the signature and the expiry of the token are valid.
C11_StaleRefreshRejected ==
  \A t \in Tokens :
    Stale(t) => GetCurrentUserProfileRun(t).resp.status = 401

\* The error of a sign-up that names a stored username or a stored email, with no
\* token in it.
Conflict(r) ==
  /\ r.status = 400
  /\ r.detail \in {"Username already exists", "Email already in use"}
  /\ r.access_token = NoToken /\ r.refresh_token = NoToken

\* C12: register and create_user fail with the conflict error when the username is
\* the username of a stored user or the email is the email of a stored user (each
\* of the two is looked up), and the failed call leaves the users collection as it
\* was: no user inserted, no refresh hash stored, no token returned.
C12_ConflictInsertsNothing ==
  \A n \in Usernames, e \in Emails, p \in Passwords, s1 \in Salts, s2 \in Salts :
    (FindByUsername(users, n) # 0 \/ FindByEmail(users, e) # 0) =>
      /\ LET out == RegisterRun(n, e, p, s1, s2)
         IN Conflict(out.resp) /\ out.users = users
      /\ LET out == CreateUserRun(n, e, p, s1)
         IN Conflict(out.resp) /\ out.users = users

\* A register with a new username and the email of a stored user has failed.
C12_Witness ==
  /\ call.op = "register" /\ call.branch = "email_exists"
  /\ Conflict(resp)
  /\ FindByUsername(users, call.identifier) = 0

\* C13: in every reachable state, also one reached by register and create_user
\* calls whose lookups and inserts interleave, no two stored users have the same
\* username and no two have the same email.
C13_UniqueUsernameAndEmail ==
  \A i \in 1..Len(users), j \in 1..Len(users) :
    i # j => /\ users[i].username # users[j].username
             /\ users[i].email # users[j].email

\* change_password of an authenticated user: with a current_password that does not
\* verify it fails with the given status and changes no user; with one that
\* verifies, the stored hash becomes a hash of new_password and nothing else of
\* any user changes.
ChangePasswordChecks(status) ==
  \A t \in Tokens, c \in Passwords, p \in Passwords, salt \in Salts :
    LET u == get_current_user(users, t)
        out == ChangePasswordRun(users, t, c, p, salt)
    IN u # 0 =>
         IF ~verify_password(c, users[u].password)
         THEN out.resp.status = status /\ out.users = users
         ELSE /\ out.resp.status = 200
              /\ verify_password(p, out.users[u].password)
              /\ out.users = [users EXCEPT ![u].password = out.users[u].password]

\* C14 as stated: change_password fails with the error of the Unauthenticated kind
\* (401) when current_password does not verify against the stored hash, leaving
\* the hash unchanged; when it verifies, the stored hash is replaced by the hash of
\* new_password and no other user field changes.
C14_WrongCurrentUnauthenticated == ChangePasswordChecks(401)

\* C14, amended: the failure is the 400 error "Current password is incorrect",
\* the status of the InvalidArgument kind; the rest as stated.
C14_WrongCurrentBadRequest == ChangePasswordChecks(400)

\* A change_password with a wrong current_password has failed.
C14_Witness ==
  /\ call.op = "change_password" /\ call.branch = "wrong_current"
  /\ resp.status = 400
  /\ ~verify_password(call.password, users[call.user].password)

\* C15: request_password_reset answers an email of a stored user and an email of
\* no stored user with the same response.
C15_ResetRequestHidesExistence ==
  \A e1 \in Emails, e2 \in Emails, n \in RandInts :
    (FindByEmail(users, e1) # 0 /\ FindByEmail(users, e2) = 0) =>
      RequestPasswordResetRun(users, e1, n).resp
        = RequestPasswordResetRun(users, e2, n).resp

\* C16: confirm_password_reset for the email of a stored user fails with the
\* InvalidArgument error (400) when the user has no pending reset code, when the
\* submitted code differs from the stored one, and when the time is after the
\* stored expiry; each failure leaves the password hash, the reset code and the
\* expiry (the whole users collection) unchanged.
C16_FailedConfirmChangesNothing ==
  \A e \in Emails, c \in ResetCodes, p \in Passwords, salt \in Salts :
    LET u == FindByEmail(users, e)
        out == ConfirmPasswordResetRun(users, e, c, p, salt)
    IN u # 0 =>
         ((\/ ~users[u].reset_code.present
           \/ users[u].reset_code.value # c
           \/ now > users[u].reset_code_expiry.value)
            => out.resp.status = 400 /\ out.users = users)

\* A confirm with the stored code has failed after the expiry, one hour after
\* the request.
C16_Witness ==
  /\ call.op = "confirm_password_reset" /\ call.branch = "expired"
  /\ resp.status = 400
  /\ users[call.user].reset_code = [present |-> TRUE, value |-> call.code]
  /\ now > users[call.user].reset_code_expiry.value

\* C17: a confirm_password_reset that succeeds replaces the password hash and
\* removes reset_code and reset_code_expiry, so that a second confirm with the
\* same email and code, no request_password_reset in between, fails and leaves the
\* hash as it is.
C17_SecondConfirmFails ==
  (call.op = "confirm_password_reset" /\ call.branch = "ok") =>
    /\ verify_password(call.new_password, users[call.user].password)
    /\ users[call.user].reset_code = NoCode
    /\ users[call.user].reset_code_expiry = NoExpiry
    /\ \A p \in Passwords, salt \in Salts :
         LET out == ConfirmPasswordResetRun(users, call.identifier, call.code, p,
                                            salt)
         IN out.resp.status = 400 /\ out.users = users

\* A confirm has succeeded, with a new password that is not the one replaced.
C17_Witness ==
  /\ call.op = "confirm_password_reset" /\ call.branch = "ok"
  /\ resp.status = 200
  /\ call.new_password = "pw2"
  /\ users[call.user].reset_code = NoCode

\* C20: per user, after any sequence of successful register, login,
\* login_with_email and logout calls run one after the other, the stored
\* refresh_token hash is absent exactly when the last of these calls for the user
\* was logout, and otherwise it is a hash of the refresh token the most recent
\* register or login call returned; a login that fails changes no stored user.
C20_HashFollowsLastSessionCall ==
  /\ \A u \in 1..Len(users) :
       LET s == session.of[u]
       IN /\ ~users[u].refresh_token.present <=> s.last = "logout"
          /\ s.last # "logout" =>
               verify_password(s.refresh_token, users[u].refresh_token)
  /\ \A i \in Identifiers, p \in Passwords, salt \in Salts :
       /\ LET out == LoginRun(i, p, salt)
          IN out.branch # "ok" => out.users = users
       /\ LET out == LoginWithEmailRun(i, p, salt)
          IN out.branch # "ok" => out.users = users

\* One user has logged in again, replacing an earlier refresh token, and another
\* has logged out; the last call was a login that failed.
C20_Witness ==
  /\ \E u \in 1..Len(users), v \in 1..Len(users) :
       /\ session.of[u].last \in {"login", "login_with_email"}
       /\ session.old.sub = u
       /\ session.of[v].last = "logout"
  /\ call.op \in {"login", "login_with_email"} /\ call.branch = "bad_password"

\* An _id insert_one may hand out.
Fresh(p) == ~posts[p].exists /\ ~posts[p].deleted

\* C18: when the image upload fails, create_post_with_image is aborted with an
\* error (500) and inserts no post; and update_post_with_image, on a failed
\* upload, writes none of the requested changes of title, content and imageUrl.
C18_UploadFailureWritesNothing ==
  \A p \in PostIds, u \in Users, a \in Attempts :
    upload_image_to_imgbb(a).raised =>
      /\ \A d \in PostCreateForms :
           (Fresh(p) /\ d.image # None) =>
             LET out == CreatePostWithImageRun(posts, comments, p, u, d, a)
             IN out.status = 500 /\ out.posts = posts /\ out.comments = comments
      /\ \A d \in PostUpdateForms :
           d.image # None =>
             LET out == UpdatePostWithImageRun(posts, comments, p, u, d, a)
             IN /\ out.posts = posts /\ out.comments = comments
                /\ (posts[p].exists /\ posts[p].user_id = u) => out.status = 500

\* A create_post_with_image has failed on the upload and no post is stored.
C18_Witness ==
  /\ last.op = "create_post_with_image" /\ last.status = 500
  /\ last.detail = "Image upload failed"
  /\ \A p \in PostIds : ~posts[p].exists

\* C19: update_post, update_post_with_image and delete_post called by a user whose
\* id is not the user_id of the post fail with Forbidden (403) and leave the post
\* and all comments unchanged; a call that changes or deletes anything is the
\* owner's.
C19_OnlyOwnerMutates ==
  \A p \in PostIds, u \in Users :
    LET owner == posts[p].exists /\ posts[p].user_id = u
        Denied(out) ==
          /\ (posts[p].exists /\ posts[p].user_id # u) => out.status = 403
          /\ ~owner => out.posts = posts /\ out.comments = comments
    IN /\ \A d \in PostUpdates :
            Denied(UpdatePostRun(posts, comments, p, u, d))
       /\ \A d \in PostUpdateForms, a \in Attempts :
            Denied(UpdatePostWithImageRun(posts, comments, p, u, d, a))
       /\ Denied(DeletePostRun(posts, comments, p, u))

\* A delete_post by a user who is not the owner has failed, on a post that has a
\* comment.
C19_Witness ==
  /\ last.op = "delete_post" /\ last.status = 403
  /\ posts[last.id].exists /\ posts[last.id].user_id # last.user
  /\ \E c \in CommentIds : comments[c].exists /\ comments[c].post_id = last.id

\* ------------------------- delete_post and create_comment, step by step
\* A delete_post request arrives, already authenticated as current_user.
StartDeletePost(r) ==
  /\ reqs[r].pc = "idle"
  /\ \E p \in PostIds, u \in Users :
       reqs' = [reqs EXCEPT ![r] = [NoReq EXCEPT !.pc = "find", !.handler = "delete_post",
                                           !.id = p, !.user = u]]
  /\ UNCHANGED <<storeVars, seqVars, pre, authVars>>

\* post = await posts_collection.find_one(...): 404, 403, or on to the deletes.
DeletePostFind(r) ==
  /\ reqs[r].pc = "find" /\ reqs[r].handler = "delete_post"
  /\ LET post == posts[reqs[r].id]
     IN reqs' = [reqs EXCEPT ![r] =
          IF ~post.exists
          THEN [@ EXCEPT !.pc = "done", !.status = 404, !.detail = "Post not found"]
          ELSE IF post.user_id # reqs[r].user
               THEN [@ EXCEPT !.pc = "done", !.status = 403,
                              !.detail = "You can only delete your own posts"]
               ELSE [@ EXCEPT !.pc = "delete_one", !.doc = post]]
  /\ UNCHANGED <<storeVars, seqVars, pre, authVars>>

\* await posts_collection.delete_one({"_id": object_id}).
DeletePostDeleteOne(r) ==
  /\ reqs[r].pc = "delete_one" /\ reqs[r].handler = "delete_post"
  /\ posts' = [posts EXCEPT ![reqs[r].id] = IF @.exists THEN DeletedDoc ELSE @]
  /\ reqs' = [reqs EXCEPT ![r].pc = "delete_many"]
  /\ UNCHANGED <<comments, seqVars, pre, authVars>>

\* await comments_collection.delete_many({"post_id": object_id}); return.
DeletePostDeleteMany(r) ==
  /\ reqs[r].pc = "delete_many" /\ reqs[r].handler = "delete_post"
  /\ comments' = [c \in CommentIds |->
                    IF comments[c].exists /\ comments[c].post_id = reqs[r].id
                    THEN DeletedDoc ELSE comments[c]]
  /\ reqs' = [reqs EXCEPT ![r] = [@ EXCEPT !.pc = "done", !.status = 200]]
  /\ UNCHANGED <<posts, seqVars, pre, authVars>>

\* A create_comment request arrives; the handler asks for no authentication.
StartCreateComment(r) ==
  /\ reqs[r].pc = "idle"
  /\ \E p \in PostIds :
       reqs' = [reqs EXCEPT ![r] = [NoReq EXCEPT !.pc = "find",
                                           !.handler = "create_comment", !.id = p]]
  /\ UNCHANGED <<storeVars, seqVars, pre, authVars>>

\* post = await posts_collection.find_one({"_id": post_id}): 404 or on to the insert.
CreateCommentFind(r) ==
  /\ reqs[r].pc = "find" /\ reqs[r].handler = "create_comment"
  /\ reqs' = [reqs EXCEPT ![r] =
       IF ~posts[reqs[r].id].exists
       THEN [@ EXCEPT !.pc = "done", !.status = 404, !.detail = "Post not found"]
       ELSE [@ EXCEPT !.pc = "insert"]]
  /\ UNCHANGED <<storeVars, seqVars, pre, authVars>>

\* result = await comments_collection.insert_one(comment_dict), under a fresh id.
CreateCommentInsert(r) ==
  /\ reqs[r].pc = "insert" /\ reqs[r].handler = "create_comment"
  /\ \E c \in CommentIds :
       /\ ~comments[c].exists /\ ~comments[c].deleted
       /\ comments' = [comments EXCEPT ![c] = [NewDoc EXCEPT !.post_id = reqs[r].id]]
       /\ reqs' = [reqs EXCEPT ![r] = [@ EXCEPT !.pc = "find_inserted",
                                                !.comment_id = c]]
  /\ UNCHANGED <<posts, seqVars, pre, authVars>>

\* new_comment = await comments_collection.find_one(...); return comment_helper(...).
CreateCommentFindInserted(r) ==
  /\ reqs[r].pc = "find_inserted" /\ reqs[r].handler = "create_comment"
  /\ LET new_comment == comments[reqs[r].comment_id]
     IN reqs' = [reqs EXCEPT ![r] =
          IF new_comment.exists
          THEN [@ EXCEPT !.pc = "done", !.status = 200, !.doc = new_comment,
                         !.body = comment_helper(new_comment)]
          ELSE [@ EXCEPT !.pc = "done", !.status = 500]]
  /\ UNCHANGED <<storeVars, seqVars, pre, authVars>>

NextCascade ==
  \/ CreatePost
  \/ CreateComment
  \/ \E r \in ReqIds : StartDeletePost(r)
  \/ \E r \in ReqIds : DeletePostFind(r)
  \/ \E r \in ReqIds : DeletePostDeleteOne(r)
  \/ \E r \in ReqIds : DeletePostDeleteMany(r)
  \/ \E r \in ReqIds : StartCreateComment(r)
  \/ \E r \in ReqIds : CreateCommentFind(r)
  \/ \E r \in ReqIds : CreateCommentInsert(r)
  \/ \E r \in ReqIds : CreateCommentFindInserted(r)

SpecCascade == Init /\ [][NextCascade]_vars

\* C23: once a delete_post request has returned its success, no stored comment
\* refers to the post it deleted, whatever the interleaving of its two deletes with
\* the check and the insert of concurrent create_comment requests.
C23_NoCommentOutlivesItsPost ==
  \A r \in ReqIds :
    (reqs[r].handler = "delete_post" /\ reqs[r].pc = "done" /\ reqs[r].status = 200) =>
      \A c \in CommentIds : comments[c].exists => comments[c].post_id # reqs[r].id

\* ------------------------------------------------- the move under concurrency
\* The update_operation of a move: one $pull, one $push and both $inc.
IsMove(op) == op.pull # {} /\ op.push # {}

\* The voters and counters of a move, seen from the list the user leaves.
MoveView(doc, op) ==
  IF "upvoters" \in op.pull
  THEN [from |-> GetUpvoters(doc), to |-> GetDownvoters(doc),
        from_count |-> doc.upvotes, to_count |-> doc.downvotes]
  ELSE [from |-> GetDownvoters(doc), to |-> GetUpvoters(doc),
        from_count |-> doc.downvotes, to_count |-> doc.upvotes]

\* C21: the move (downvote switched to upvote, or upvote switched to downvote) is
\* written by one store update: the step in which a request's update_one runs takes
\* the user out of one list, appends the user to the other and changes both
\* counters, and no other step of that request changes the document, so no reader
\* between two steps sees the move partly applied.
C21_MoveIsOneUpdate ==
  [][\A r \in ReqIds :
       (IsMove(reqs[r].op) /\ reqs'[r] # reqs[r] /\ reqs[r].pc # "idle") =>
         LET req == reqs[r]
             old == MoveView(ReqDoc(req), req.op)
             new == MoveView(IF req.handler = "vote_post" THEN posts'[req.id]
                             ELSE comments'[req.id], req.op)
         IN IF req.pc = "update"
            THEN /\ ~In(req.user, new.from)
                 /\ new.from = Pull(old.from, req.user)
                 /\ new.to = Push(old.to, req.user)
                 /\ new.from_count = old.from_count - 1
                 /\ new.to_count = old.to_count + 1
            ELSE new = old]_vars

\* A move has been written while the other request is between its own store calls.
C21_Witness ==
  \E r \in ReqIds, o \in ReqIds :
    /\ r # o
    /\ reqs[r].pc = "find_updated" /\ IsMove(reqs[r].op)
    /\ reqs[o].pc \in {"update", "find_again", "set_voters"}
    /\ reqs[o].handler = reqs[r].handler /\ reqs[o].id = reqs[r].id
    /\ LET v == MoveView(ReqDoc(reqs[r]), reqs[r].op)
       IN In(reqs[r].user, v.to) /\ ~In(reqs[r].user, v.from)

\* ------------------------------------------------------- migration on read
\* The row of the transition table for a user who is in neither list.
NeitherRow(vote_type) ==
  CASE vote_type = "upvote" ->
         Update([pull |-> {}, push |-> {"upvoters"}, inc_up |-> 1, inc_down |-> 0])
    [] vote_type = "downvote" ->
         Update([pull |-> {}, push |-> {"downvoters"}, inc_up |-> 0, inc_down |-> 1])
    [] vote_type = "remove_upvote" -> Return("Not upvoted")
    [] vote_type = "remove_downvote" -> Return("Not downvoted")
    [] OTHER -> Raise400

\* C22: when a vote request has read a post or comment with no voters field, its
\* initialising write leaves the field with empty upvoters and downvoters before the
\* transition is evaluated, the transition on that document is the row of a user in
\* neither list, and the write removes no vote that another request has already
\* recorded: every user in a list before the write is in it after the write.
C22_MigrationKeepsVotes ==
  [][\A r \in ReqIds :
       (reqs[r].pc = "set_voters" /\ reqs'[r].pc = "find_again") =>
         LET req == reqs[r]
             old == ReqDoc(req)
             new == IF req.handler = "vote_post" THEN posts'[req.id]
                    ELSE comments'[req.id]
             d == IF req.handler = "vote_post"
                  THEN vote_post_decide(SetVotersEmpty(req.doc), req.user, req.vote_type)
                  ELSE vote_comment_decide(SetVotersEmpty(req.doc), req.user,
                                           req.vote_type)
         IN /\ new.voters.present
            /\ d = NeitherRow(req.vote_type)
            /\ Members(GetUpvoters(old)) \subseteq Members(GetUpvoters(new))
            /\ Members(GetDownvoters(old)) \subseteq Members(GetDownvoters(new))]_vars

\* ------------------------------------------- the two vote handlers compared
\* The kind of outcome of a vote request.
OutcomeKind(out) ==
  IF out.status = 404 THEN "NotFound"
  ELSE IF out.status = 400 THEN "InvalidArgument"
  ELSE IF out.action = "none" THEN "none" ELSE "transition"

\* The documents stored now, posts and comments alike.
StoredDocs ==
  {posts[p] : p \in {q \in PostIds : posts[q].exists}}
    \cup {comments[c] : c \in {k \in CommentIds : comments[k].exists}}

\* C24: vote_post and vote_comment are the same state machine: on every stored
\* voter and counter state, for every user and every vote_type, valid or not, the
\* two handlers leave the same upvoters, downvoters, upvotes and downvotes and have
\* the same kind of outcome (transition, no-op with action "none", InvalidArgument).
C24_VoteHandlersAgree ==
  \A doc \in StoredDocs, u \in Users, t \in VoteTypes :
    LET p == VotePostRun(doc, u, t)
        c == VoteCommentRun(doc, u, t)
    IN /\ View(p.doc) = View(c.doc)
       /\ p.doc.voters = c.doc.voters
       /\ OutcomeKind(p) = OutcomeKind(c)
       /\ p.message = c.message
       /\ p.body = c.body
       /\ p.writes = c.writes

\* A comment holds a downvote of a user and an upvote of the other, the state from
\* which the three kinds of outcome are all possible, and a vote_comment has moved
\* a vote there.
C24_Witness ==
  /\ last.op = "vote_comment" /\ last.status = 200 /\ last.action # "none"
  /\ Members(Before.upvoters) # {} /\ Members(Before.downvoters) # {}
  /\ \E u \in Users :
       /\ OutcomeKind(VoteCommentRun(last.before, u, "upvote")) = "transition"
       /\ OutcomeKind(VotePostRun(last.before, u, "downvote")) = "none"
       /\ OutcomeKind(VotePostRun(last.before, u, "bogus")) = "InvalidArgument"

\* ------------------------------------------------------------ the image upload
\* One call of upload_image_to_imgbb, the attempt with each key coming to any of
\* the three outcomes.
UploadImage(r) ==
  /\ reqs[r].pc = "idle"
  /\ \E attempts \in [DOMAIN IMGBB_API_KEYS -> AttemptOutcomes] :
       reqs' = [reqs EXCEPT ![r] =
                  [NoReq EXCEPT !.pc = "done", !.handler = "upload_image_to_imgbb",
                                !.attempts = attempts,
                                !.up = upload_image_to_imgbb(attempts)]]
  /\ UNCHANGED <<storeVars, seqVars, pre, authVars>>

SpecUpload == Init /\ [][\E r \in {"r1"} : UploadImage(r)]_vars

\* C25: upload_image_to_imgbb posts with the keys in list order, at most once per
\* key; when an attempt is ok (status 200 and the success flag) it returns the url
\* of the first such attempt and posts with no later key; it raises exactly when
\* the attempts with all the keys failed or raised; and it ends after at most one
\* attempt per key.
C25_UploadTriesKeysInOrder ==
  \A r \in ReqIds :
    reqs[r].handler = "upload_image_to_imgbb" =>
      LET attempts == reqs[r].attempts
          up == reqs[r].up
          oks == {k \in DOMAIN IMGBB_API_KEYS : attempts[k] = "ok"}
      IN /\ Len(up.tried) <= Len(IMGBB_API_KEYS)
         /\ \A i \in 1..Len(up.tried) : up.tried[i] = IMGBB_API_KEYS[i]
         /\ up.raised <=> oks = {}
         /\ up.raised => Len(up.tried) = Len(IMGBB_API_KEYS) /\ up.url = None
         /\ \A k \in oks :
              (\A j \in oks : k <= j) =>
                /\ up.url = ImgbbUrls[k]
                /\ Len(up.tried) = k

\* An upload has returned the url of the attempt with the third key: the first key
\* raised, the second was refused, and the last key, which would have worked, was
\* not tried.
C25_Witness ==
  \E r \in ReqIds :
    /\ reqs[r].handler = "upload_image_to_imgbb" /\ reqs[r].pc = "done"
    /\ reqs[r].attempts[1] = "raise" /\ reqs[r].attempts[2] = "error"
    /\ reqs[r].attempts[5] = "ok"
    /\ reqs[r].up.url = ImgbbUrls[3]
    /\ reqs[r].up.tried = <<IMGBB_API_KEYS[1], IMGBB_API_KEYS[2], IMGBB_API_KEYS[3]>>

\* ------------------------------- confirm_password_reset, step by step
\* A confirm_password_reset request arrives.
StartConfirmPasswordReset(r) ==
  /\ reqs[r].pc = "idle"
  /\ \E e \in ResetEmails, c \in ResetCodes, p \in Passwords :
       reqs' = [reqs EXCEPT ![r] =
                  [NoReq EXCEPT !.pc = "find", !.handler = "confirm_password_reset",
                                !.email = e, !.reset_code = c, !.password = p]]
  /\ UNCHANGED <<storeVars, seqVars, pre, authVars>>

\* user = await get_user_by_email(...) and the four checks on the user read, up
\* to the hashing of the new password: 400, or on to the update.
ConfirmPasswordResetFind(r) ==
  /\ reqs[r].pc = "find" /\ reqs[r].handler = "confirm_password_reset"
  /\ LET out == ConfirmPasswordResetRun(users, reqs[r].email, reqs[r].reset_code,
                                        reqs[r].password, 1)
     IN reqs' = [reqs EXCEPT ![r] =
          IF out.branch = "ok" THEN [@ EXCEPT !.pc = "update", !.user = out.user]
          ELSE [@ EXCEPT !.pc = "done", !.status = out.resp.status,
                         !.detail = out.resp.detail, !.resp = out.resp]]
  /\ UNCHANGED <<storeVars, seqVars, pre, authVars>>

\* await users_collection.update_one({"_id": user["_id"]}, ...); return.
ConfirmPasswordResetUpdate(r) ==
  /\ reqs[r].pc = "update" /\ reqs[r].handler = "confirm_password_reset"
  /\ \E salt \in Salts :
       users' = ResetPassword(users, reqs[r].user,
                              get_password_hash(reqs[r].password, salt))
  /\ reqs' = [reqs EXCEPT ![r] =
                [@ EXCEPT !.pc = "done", !.status = 200,
                          !.resp = Message("Password has been reset successfully")]]
  /\ UNCHANGED <<storeVars, seqVars, pre, now, resp, call, session>>

NextResetConc ==
  \/ AllIdle /\ SessionRegister
  \/ AllIdle /\ RequestPasswordReset
  \/ AllIdle /\ Tick
  \/ \E r \in ReqIds : StartConfirmPasswordReset(r)
  \/ \E r \in ReqIds : ConfirmPasswordResetFind(r)
  \/ \E r \in ReqIds : ConfirmPasswordResetUpdate(r)

SpecResetConc == Init /\ [][NextResetConc]_vars

\* C27: a reset code authorises at most one password replacement: when two
\* confirm_password_reset requests with the same email, the same code and different
\* new passwords interleave, at most one of them succeeds, and the stored hash is
\* the one written by the request that succeeded.
C27_CodeUsedAtMostOnce ==
  \A r \in ReqIds, o \in ReqIds :
    (/\ r # o
     /\ reqs[r].handler = "confirm_password_reset" /\ reqs[r].pc = "done"
     /\ reqs[o].handler = "confirm_password_reset" /\ reqs[o].pc = "done"
     /\ reqs[r].email = reqs[o].email /\ reqs[r].reset_code = reqs[o].reset_code
     /\ reqs[r].password # reqs[o].password
     /\ reqs[r].status = 200) =>
       /\ reqs[o].status # 200
       /\ verify_password(reqs[r].password, users[reqs[r].user].password)

\* ------------------------------------------------------ the reset code issued
\* C26: request_password_reset for the email of a stored user stores a code of
\* exactly 6 decimal digits, the digits of a number in 100000..999999, and an
\* expiry of the request time plus one hour, in place of any code pending before,
\* so that right after it confirm_password_reset passes with the new code and with
\* no other code, the one replaced included; it changes nothing else of the stored
\* users, and for an email of no stored user it changes nothing at all.
C26_RequestStoresFreshCode ==
  \A e \in Emails, n \in RandInts :
    LET u == FindByEmail(users, e)
        out == RequestPasswordResetRun(users, e, n)
    IN IF u = 0 THEN out.users = users
       ELSE LET new == out.users[u]
                replaced == IF users[u].reset_code.present
                            THEN {users[u].reset_code.value} ELSE {}
            IN /\ n \in RESET_CODE_MIN..RESET_CODE_MAX
               /\ new.reset_code.present
               /\ new.reset_code.value = Str(n)
               /\ Len(new.reset_code.value) = 6
               /\ \A i \in 1..6 : new.reset_code.value[i] \in 0..9
               /\ new.reset_code.value[1] # 0
               /\ new.reset_code_expiry = [present |-> TRUE, value |-> now + Hour]
               /\ out.users = [users EXCEPT ![u] =
                                 [@ EXCEPT !.reset_code = new.reset_code,
                                           !.reset_code_expiry = new.reset_code_expiry]]
               /\ \A c \in ResetCodes \cup replaced, p \in Passwords, salt \in Salts :
                    ConfirmPasswordResetRun(out.users, e, c, p, salt).branch = "ok"
                      <=> c = Str(n)

\* A request_password_reset, made after the clock has moved, has replaced a pending
\* code by a different one, which is the stored code now.
C26_Witness ==
  /\ call.op = "request_password_reset" /\ call.branch = "ok"
  /\ now > 0
  /\ call.code \in ResetCodes
  /\ users[call.user].reset_code.present
  /\ users[call.user].reset_code.value # call.code
  /\ users[call.user].reset_code.value = resp.dev_only.reset_code
  /\ users[call.user].reset_code_expiry.value = now + Hour

\* ------------------------------------------------------- the frame of a vote
\* Two posts and a comment, one request after the other: post p1 takes every vote
\* of every user, post p2 an upvote of user 1, and the comment the upvotes and
\* downvotes of two users.
FramePostIds == {"p1", "p2"}
CommentVoters == {1, 2}

InitFrame ==
  /\ posts = [p \in FramePostIds |-> NoDoc]
  /\ comments = [c \in CommentIds |-> NoDoc]
  /\ last = NoCall
  /\ scenario = -1
  /\ InitConc
  /\ InitAuth

NextFrame ==
  \/ \E p \in FramePostIds, post \in PlainPosts : create_post(p, 1, post)
  \/ \E c \in CommentIds : create_comment(c, "p1")
  \/ \E u \in Users, t \in VoteTypes :
       vote_post("p1", u, t) /\ UNCHANGED <<concVars, authVars>>
  \/ vote_post("p2", 1, "upvote") /\ UNCHANGED <<concVars, authVars>>
  \/ \E c \in CommentIds, u \in CommentVoters, t \in {"upvote", "downvote"} :
       vote_comment(c, u, t) /\ UNCHANGED <<concVars, authVars>>

SpecFrame == InitFrame /\ [][NextFrame]_vars

\* C28: a vote_post or vote_comment call by user u on post or comment r, with no
\* other request in between, changes of r only the voter lists and the two
\* counters: the occurrences of every other user in both lists stay as they were,
\* each counter changes by what u's own occurrences in its list change by, and
\* every other post and every other comment is left as it was.
C28_VoteFrame ==
  [][(last'.op \in {"vote_post", "vote_comment"}) =>
       LET u == last'.user
           on_post == last'.op = "vote_post"
           old == IF on_post THEN posts[last'.id] ELSE comments[last'.id]
           new == IF on_post THEN posts'[last'.id] ELSE comments'[last'.id]
       IN /\ \A q \in DOMAIN posts :
               (~on_post \/ q # last'.id) => posts'[q] = posts[q]
          /\ \A c \in DOMAIN comments :
               (on_post \/ c # last'.id) => comments'[c] = comments[c]
          /\ [new EXCEPT !.voters = old.voters, !.upvotes = old.upvotes,
                         !.downvotes = old.downvotes] = old
          /\ \A v \in Users \ {u} :
               /\ Occurrences(v, GetUpvoters(new)) = Occurrences(v, GetUpvoters(old))
               /\ Occurrences(v, GetDownvoters(new))
                    = Occurrences(v, GetDownvoters(old))
          /\ new.upvotes - old.upvotes
               = Occurrences(u, GetUpvoters(new)) - Occurrences(u, GetUpvoters(old))
          /\ new.downvotes - old.downvotes
               = Occurrences(u, GetDownvoters(new))
                   - Occurrences(u, GetDownvoters(old))]_vars

\* A vote of user 1 on post p1 has moved user 1 from one list to the other while
\* the other user is in a list of p1, user 1 is an upvoter of post p2, and both
\* voters of the comment are in its lists.
C28_Witness ==
  /\ last.op = "vote_post" /\ last.id = "p1" /\ last.status = 200
  /\ last.user = 1 /\ last.action # "none"
  /\ Members(Before.upvoters) \cup Members(Before.downvoters) = Users
  /\ After # Before
  /\ In(1, GetUpvoters(posts["p2"])) /\ posts["p2"].upvotes = 1
  /\ \E c \in CommentIds :
       Members(GetUpvoters(comments[c])) \cup Members(GetDownvoters(comments[c]))
         = CommentVoters

====
